---- MODULE Spec2Model ----
(***************************************************************************)
(* A model of SceneManager (7-1_FinalProjectMilestones/Source/             *)
(* SceneManager.cpp): the texture registry, the material table, the shader *)
(* uniform writers and the transform composition.                          *)
(*                                                                         *)
(* Numbers with a fractional part are kept in thousandths (0.4 is 400).    *)
(***************************************************************************)
EXTENDS Integers, Sequences, FiniteSets, TLC

\* ------------------------------------------------------------------ sizes

\* m_textureIDs has 16 entries ("There are up to 16 slots").
NumTextureUnits == 16

\* How many registrations past the end of m_textureIDs the model follows.
MaxOverflow == 1

\* How many failing CreateGLTexture calls one run of the texture
\* specification makes.
MaxFailedLoads == 1

\* How many materials the material specification lets the table hold.
MaxMaterials == 5

\* The sentinel FindTextureID and FindTextureSlot start from.
NotFound == -1

\* ------------------------------------------------------------------ inputs

\* The tags CreateGLTexture is called with: the scene's seven, then more.
TagPool ==
    << "floor", "atlas-stone", "walls", "bench", "metal", "wood", "dbell",
       "t08", "t09", "t10", "t11", "t12", "t13", "t14", "t15", "t16",
       "t17", "t18", "t19", "t20", "t21", "t22", "t23", "t24" >>

\* A tag no CreateGLTexture call of the model ever uses.
MissingTag == "missing"

AllTags == {TagPool[i] : i \in 1..Len(TagPool)} \cup {MissingTag}

\* The tags the model calls FindTextureID and FindTextureSlot with.
ProbeTags == {TagPool[1], MissingTag}

\* The image files LoadSceneTextures names.
SceneFiles ==
    { "textures/asphalt-floor.png", "textures/concrete-stones.png",
      "textures/concrete-walls.png", "textures/rubber-bench.png",
      "textures/metal-beams.png", "textures/wood-base.png",
      "textures/dumbbells.png" }

\* Every file decodes, one of them with an alpha channel.
AllDecode ==
    [f \in SceneFiles |-> IF f = "textures/dumbbells.png" THEN 4 ELSE 3]

\* The texture directories the scene specification starts from: complete,
\* one file missing, one file grey, two files missing, empty.
FileScenarios ==
    { AllDecode,
      [AllDecode EXCEPT !["textures/asphalt-floor.png"] = 0],
      [AllDecode EXCEPT !["textures/metal-beams.png"] = 1],
      [AllDecode EXCEPT !["textures/wood-base.png"] = 0,
                        !["textures/dumbbells.png"] = 0],
      [f \in SceneFiles |-> 0] }

\* What stbi_load gives: 0 is a NULL image (colorChannels keeps its initial
\* 0), otherwise the channel count of the decoded image (grey, RGB, RGBA).
DecodeResults == {0, 1, 3, 4}

\* The memory the model follows: m_textureIDs and the entries past its end.
TextureIndices == 0..(NumTextureUnits + MaxOverflow - 1)

\* ------------------------------------------------------------------ state

VARIABLES
    m_pShaderManager,   \* "NULL" or "shader"
    m_textureIDs,       \* index -> [tag, ID]
    m_loadedTextures,   \* int
    m_objectMaterials,  \* sequence of OBJECT_MATERIAL
    glGenerated,        \* number of texture names glGenTextures has returned
    glActiveUnit,       \* the unit glActiveTexture selected
    glTexUnit,          \* unit -> texture bound to GL_TEXTURE_2D (0: none)
    imagesLive,         \* decoded images not yet given to stbi_image_free
    uniforms,           \* the shader's uniforms: name -> value last written
    nullDeref,          \* a ShaderManager method was called through NULL
    halted,             \* the process has crashed
    meshes,             \* the meshes m_basicMeshes has loaded
    files,              \* what stbi_load gives for each texture file
    pc,                 \* the method the caller is in and its next statement
    frames,             \* history: RenderScene calls that have returned
    bindCalls,          \* history: BindGLTextures calls
    drawCalls,          \* history: Draw...Mesh calls
    frameLog,           \* history: [op, tag, writes] of each call of this frame
    drawLog,            \* history: the uniforms in effect at each draw of this frame
    prevFrame,          \* history: << frameLog, drawLog >> of the frame before
    createLog,          \* history: [tag, ret] of every CreateGLTexture call
    lastCall            \* history: the last call, its inputs and its result

vars ==
    << m_pShaderManager, m_textureIDs, m_loadedTextures, m_objectMaterials,
       glGenerated, glActiveUnit, glTexUnit, imagesLive, uniforms, nullDeref,
       halted, meshes, files, pc, frames, bindCalls, drawCalls, frameLog,
       drawLog, prevFrame, createLog, lastCall >>

registry == << m_textureIDs, m_loadedTextures, m_objectMaterials >>

glState == << glGenerated, glActiveUnit, glTexUnit, imagesLive >>

shaderState == << uniforms, nullDeref >>

\* What only PrepareScene, RenderScene and their caller change.
sceneState ==
    << meshes, files, pc, frames, bindCalls, drawCalls, frameLog, drawLog, prevFrame >>

\* The record kept of a call: what was called, with which tag and argument,
\* what it returned, how many entries it compared, what it left in its output
\* parameter and which uniforms it wrote, in order.
Call(op, tag, arg, ret, steps, out, writes) ==
    [op |-> op, tag |-> tag, arg |-> arg, ret |-> ret, steps |-> steps,
     out |-> out, writes |-> writes]

NoCall == Call("none", "", 0, 0, 0, 0, << >>)

\* ------------------------------------------------------------------ texture registry

\* SupportedChannels without the final else: every decoded image is taken.
SupportedChannels_NoElse(colorChannels) ==
    colorChannels >= 1

\* The channel counts CreateGLTexture uploads (the if / else if / else).
SupportedChannels(colorChannels) ==
    colorChannels = 3 \/ colorChannels = 4

\* RegisterTexture with the counter advanced before the entry is written.
RegisterTexture_IncrementFirst(textureID, tag) ==
    /\ m_textureIDs' =
           [m_textureIDs EXCEPT ![m_loadedTextures + 1] = [tag |-> tag, ID |-> textureID]]
    /\ m_loadedTextures' = m_loadedTextures + 1

\* m_textureIDs[m_loadedTextures] = {textureID, tag}; m_loadedTextures++.
RegisterTexture(textureID, tag) ==
    /\ m_textureIDs' =
           [m_textureIDs EXCEPT ![m_loadedTextures] = [tag |-> tag, ID |-> textureID]]
    /\ m_loadedTextures' = m_loadedTextures + 1

\* glBindTexture(GL_TEXTURE_2D, id) on the active unit.
BindTexture2D(units, id) ==
    [units EXCEPT ![glActiveUnit] = id]

\* CreateGLTexture(filename, tag), where stbi_load gives `image`.  Writing
\* entry 16 or above is a write past the array: the build may crash there or
\* carry on with the bytes behind the array overwritten.
CreateGLTexture(image, tag, outcome) ==
    LET textureID == glGenerated + 1 IN
    IF image = 0
    THEN \* Could not load image
         /\ lastCall' = Call("CreateGLTexture", tag, image, FALSE, 0, 0, << >>)
         /\ createLog' = Append(createLog, [tag |-> tag, ret |-> FALSE])
         /\ UNCHANGED << m_pShaderManager, registry, glState, shaderState, halted >>
    ELSE IF ~SupportedChannels(image)
    THEN \* return false with the texture generated and bound, the image kept
         /\ glGenerated' = textureID
         /\ glTexUnit' = BindTexture2D(glTexUnit, textureID)
         /\ imagesLive' = imagesLive + 1
         /\ lastCall' = Call("CreateGLTexture", tag, image, FALSE, 0, 0, << >>)
         /\ createLog' = Append(createLog, [tag |-> tag, ret |-> FALSE])
         /\ UNCHANGED << m_pShaderManager, registry, glActiveUnit, shaderState, halted >>
    ELSE /\ glGenerated' = textureID
         /\ glTexUnit' = BindTexture2D(glTexUnit, 0)
         /\ imagesLive' = imagesLive
         /\ RegisterTexture(textureID, tag)
         /\ halted' = (m_loadedTextures >= NumTextureUnits /\ outcome = "crash")
         /\ lastCall' = Call("CreateGLTexture", tag, image, TRUE, 0, 0, << >>)
         /\ createLog' = Append(createLog, [tag |-> tag, ret |-> TRUE])
         /\ UNCHANGED << m_pShaderManager, m_objectMaterials, glActiveUnit, shaderState >>

\* BindGLTextures(): texture i on unit i.
RECURSIVE BindLoop(_, _)
BindLoop(units, i) ==
    IF i < m_loadedTextures
    THEN BindLoop([units EXCEPT ![i] = m_textureIDs[i].ID], i + 1)
    ELSE units

BindGLTextures ==
    /\ glTexUnit' = BindLoop(glTexUnit, 0)
    /\ glActiveUnit' = IF m_loadedTextures > 0 THEN m_loadedTextures - 1 ELSE glActiveUnit
    /\ lastCall' = Call("BindGLTextures", "", 0, 0, m_loadedTextures, 0, << >>)
    /\ UNCHANGED << m_pShaderManager, registry, glGenerated, imagesLive,
                    shaderState, halted, createLog >>

\* The texture names GL holds: every name glGenTextures has returned, since
\* no method of the class calls glDeleteTextures.
glLiveTextures == 1..glGenerated

\* DestroyGLTextures(): glGenTextures(1, &m_textureIDs[i].ID) for every i
\* below m_loadedTextures.
DestroyGLTextures ==
    /\ m_textureIDs' =
           [i \in TextureIndices |->
               IF i < m_loadedTextures
               THEN [m_textureIDs[i] EXCEPT !.ID = glGenerated + i + 1]
               ELSE m_textureIDs[i]]
    /\ glGenerated' = glGenerated + m_loadedTextures
    /\ lastCall' = Call("DestroyGLTextures", "", 0, 0, m_loadedTextures, 0, << >>)
    /\ UNCHANGED << m_pShaderManager, m_loadedTextures, m_objectMaterials, glActiveUnit,
                    glTexUnit, imagesLive, shaderState, halted, createLog >>

\* The loop of FindTextureID going on after a match, so that the last entry
\* with the tag wins.
RECURSIVE FindTextureIDLoop_LastMatch(_, _, _, _, _)
FindTextureIDLoop_LastMatch(tag, textureID, index, bFound, steps) ==
    IF index < m_loadedTextures
    THEN IF m_textureIDs[index].tag = tag
         THEN FindTextureIDLoop_LastMatch(tag, m_textureIDs[index].ID, index + 1, TRUE,
                                          steps + 1)
         ELSE FindTextureIDLoop_LastMatch(tag, textureID, index + 1, bFound, steps + 1)
    ELSE [ret |-> textureID, steps |-> steps]

\* The while loop of FindTextureID; steps counts the entries it compared.
RECURSIVE FindTextureIDLoop(_, _, _, _, _)
FindTextureIDLoop(tag, textureID, index, bFound, steps) ==
    IF index < m_loadedTextures /\ bFound = FALSE
    THEN IF m_textureIDs[index].tag = tag
         THEN FindTextureIDLoop(tag, m_textureIDs[index].ID, index, TRUE, steps + 1)
         ELSE FindTextureIDLoop(tag, textureID, index + 1, bFound, steps + 1)
    ELSE [ret |-> textureID, steps |-> steps]

FindTextureID(tag) ==
    FindTextureIDLoop(tag, NotFound, 0, FALSE, 0).ret

\* The while loop of FindTextureSlot.
RECURSIVE FindTextureSlotLoop(_, _, _, _, _)
FindTextureSlotLoop(tag, textureSlot, index, bFound, steps) ==
    IF index < m_loadedTextures /\ bFound = FALSE
    THEN IF m_textureIDs[index].tag = tag
         THEN FindTextureSlotLoop(tag, index, index, TRUE, steps + 1)
         ELSE FindTextureSlotLoop(tag, textureSlot, index + 1, bFound, steps + 1)
    ELSE [ret |-> textureSlot, steps |-> steps]

\* FindTextureSlot with textureSlot starting from 0 rather than -1.
FindTextureSlot_ZeroStart(tag) ==
    FindTextureSlotLoop(tag, 0, 0, FALSE, 0).ret

FindTextureSlot(tag) ==
    FindTextureSlotLoop(tag, NotFound, 0, FALSE, 0).ret

\* A call of FindTextureID from outside.
CallFindTextureID(tag) ==
    LET r == FindTextureIDLoop(tag, NotFound, 0, FALSE, 0) IN
    /\ lastCall' = Call("FindTextureID", tag, 0, r.ret, r.steps, 0, << >>)
    /\ UNCHANGED << m_pShaderManager, registry, glState, shaderState, halted, createLog >>

\* A call of FindTextureSlot from outside.
CallFindTextureSlot(tag) ==
    LET r == FindTextureSlotLoop(tag, NotFound, 0, FALSE, 0) IN
    /\ lastCall' = Call("FindTextureSlot", tag, 0, r.ret, r.steps, 0, << >>)
    /\ UNCHANGED << m_pShaderManager, registry, glState, shaderState, halted, createLog >>

\* ------------------------------------------------------------------ materials

\* An OBJECT_MATERIAL; colours are vec3 in thousandths.
Material(tag, ambientColor, ambientStrength, diffuseColor, specularColor, shininess) ==
    [tag |-> tag, ambientColor |-> ambientColor, ambientStrength |-> ambientStrength,
     diffuseColor |-> diffuseColor, specularColor |-> specularColor,
     shininess |-> shininess]

\* The four materials of DefineObjectMaterials.
stoneMAT ==
    Material("stoneMAT", <<400, 400, 400>>, 1000, <<800, 800, 800>>, <<400, 400, 400>>, 5000)

metalMAT ==
    Material("metalMAT", <<100, 100, 100>>, 1000, <<400, 400, 400>>, <<800, 800, 800>>, 15000)

\* woodMaterial with the name of the variable as its tag.
woodMaterial_VariableNameTag ==
    Material("woodMaterial", <<300, 250, 100>>, 800, <<600, 500, 200>>, <<100, 200, 200>>, 5000)

woodMaterial ==
    Material("woodMAT", <<300, 250, 100>>, 800, <<600, 500, 200>>, <<100, 200, 200>>, 5000)

rubberMaterial ==
    Material("rubberMAT", <<50, 50, 50>>, 600, <<100, 100, 100>>, <<50, 50, 50>>, 1000)

\* A material under the tag of stoneMAT with other values in every field.
secondStoneMAT ==
    Material("stoneMAT", <<10, 20, 30>>, 500, <<40, 50, 60>>, <<70, 80, 90>>, 2000)

\* The materials the material specification pushes one at a time.
MaterialInputs == {stoneMAT, metalMAT, secondStoneMAT}

MaterialTags == {"stoneMAT", "metalMAT", "woodMAT", "rubberMAT"}

\* A material tag that is never defined.
MissingMaterial == "glassMAT"

\* What a caller's OBJECT_MATERIAL holds before FindMaterial writes it: the
\* local of SetShaderMaterial is not initialised, so its numbers are whatever
\* the stack held.
IndeterminateMaterials ==
    { Material("", <<0, 0, 0>>, 0, <<0, 0, 0>>, <<0, 0, 0>>, 0),
      Material("", <<-7, 9, 11>>, 13, <<-17, 19, 23>>, <<29, -31, 37>>, -41) }

\* m_objectMaterials.push_back(material).
PushBack(materials, material) == Append(materials, material)

\* FindMaterialLoop scanning on after a match, so that the last match is the
\* one left in the output.
RECURSIVE FindMaterialLoop_LastMatch(_, _, _, _, _)
FindMaterialLoop_LastMatch(tag, material, index, bFound, steps) ==
    IF index < Len(m_objectMaterials)
    THEN IF m_objectMaterials[index + 1].tag = tag
         THEN FindMaterialLoop_LastMatch(tag,
                  [material EXCEPT
                      !.diffuseColor = m_objectMaterials[index + 1].diffuseColor,
                      !.specularColor = m_objectMaterials[index + 1].specularColor,
                      !.shininess = m_objectMaterials[index + 1].shininess],
                  index + 1, TRUE, steps + 1)
         ELSE FindMaterialLoop_LastMatch(tag, material, index + 1, bFound, steps + 1)
    ELSE [ret |-> TRUE, material |-> material, index |-> index, bFound |-> bFound,
          steps |-> steps]

\* The while loop of FindMaterial and its return(true).  m_objectMaterials
\* is indexed from 0 in the code and from 1 here.
RECURSIVE FindMaterialLoop(_, _, _, _, _)
FindMaterialLoop(tag, material, index, bFound, steps) ==
    IF index < Len(m_objectMaterials) /\ bFound = FALSE
    THEN IF m_objectMaterials[index + 1].tag = tag
         THEN FindMaterialLoop(tag,
                  [material EXCEPT
                      !.diffuseColor = m_objectMaterials[index + 1].diffuseColor,
                      !.specularColor = m_objectMaterials[index + 1].specularColor,
                      !.shininess = m_objectMaterials[index + 1].shininess],
                  index, TRUE, steps + 1)
         ELSE FindMaterialLoop(tag, material, index + 1, bFound, steps + 1)
    ELSE [ret |-> TRUE, material |-> material, index |-> index, bFound |-> bFound,
          steps |-> steps]

\* FindMaterial returning bFound, the flag its loop computes.
FindMaterial_ReturnFound(tag, material) ==
    IF Len(m_objectMaterials) = 0
    THEN [ret |-> FALSE, material |-> material, index |-> 0, bFound |-> FALSE,
          steps |-> 0]
    ELSE LET r == FindMaterialLoop(tag, material, 0, FALSE, 0) IN
         [r EXCEPT !.ret = r.bFound]

\* FindMaterial(tag, material): the value returned and the caller's material
\* afterwards.
FindMaterial(tag, material) ==
    IF Len(m_objectMaterials) = 0
    THEN [ret |-> FALSE, material |-> material, index |-> 0, bFound |-> FALSE,
          steps |-> 0]
    ELSE FindMaterialLoop(tag, material, 0, FALSE, 0)

\* FindMaterial adding an entry for a tag it does not find, as operator[]
\* of a map does.
CallFindMaterial_InsertOnMiss(tag, material) ==
    LET r == FindMaterial(tag, material) IN
    /\ lastCall' = Call("FindMaterial", tag, material, r.ret, r.steps, r.material, << >>)
    /\ m_objectMaterials' =
           IF r.bFound = TRUE
           THEN m_objectMaterials
           ELSE PushBack(m_objectMaterials, [material EXCEPT !.tag = tag])
    /\ UNCHANGED << m_pShaderManager, m_textureIDs, m_loadedTextures, glState, shaderState,
                    halted, createLog >>

\* A call of FindMaterial from a caller whose material holds `material`.
CallFindMaterial(tag, material) ==
    LET r == FindMaterial(tag, material) IN
    /\ lastCall' = Call("FindMaterial", tag, material, r.ret, r.steps, r.material, << >>)
    /\ UNCHANGED << m_pShaderManager, registry, glState, shaderState, halted, createLog >>

\* One OBJECT_MATERIAL filled in and pushed, as DefineObjectMaterials does
\* four times.
PushMaterial(material) ==
    /\ m_objectMaterials' = PushBack(m_objectMaterials, material)
    /\ lastCall' = Call("push_back", material.tag, material, 0, 0, 0, << >>)
    /\ UNCHANGED << m_pShaderManager, m_textureIDs, m_loadedTextures, glState,
                    shaderState, halted, createLog >>

\* DefineObjectMaterials().
DefineObjectMaterials ==
    /\ m_objectMaterials' =
           PushBack(PushBack(PushBack(PushBack(m_objectMaterials, stoneMAT),
                                      metalMAT), woodMaterial), rubberMaterial)
    /\ lastCall' = Call("DefineObjectMaterials", "", 0, 0, 0, 0, << >>)
    /\ UNCHANGED << m_pShaderManager, m_textureIDs, m_loadedTextures, glState,
                    shaderState, halted, createLog >>

\* ------------------------------------------------------------------ transform composition

\* cos and sin of glm::radians(degrees), in thousandths.
CosDeg(degrees) ==
    CASE degrees % 360 = 0 -> 1000
      [] degrees % 360 = 90 -> 0
      [] degrees % 360 = 180 -> -1000
      [] degrees % 360 = 270 -> 0
      [] degrees % 360 = 20 -> 940
      [] degrees % 360 = 340 -> 940

SinDeg(degrees) ==
    CASE degrees % 360 = 0 -> 0
      [] degrees % 360 = 90 -> 1000
      [] degrees % 360 = 180 -> 0
      [] degrees % 360 = 270 -> -1000
      [] degrees % 360 = 20 -> 342
      [] degrees % 360 = 340 -> -342

\* A mat4 is its four rows; m[r][c] is glm's m[c - 1][r - 1].
MatEntry(a, b, r, c) ==
    (a[r][1] * b[1][c] + a[r][2] * b[2][c] + a[r][3] * b[3][c] + a[r][4] * b[4][c])
        \div 1000

MatRow(a, b, r) ==
    << MatEntry(a, b, r, 1), MatEntry(a, b, r, 2), MatEntry(a, b, r, 3),
       MatEntry(a, b, r, 4) >>

\* a * b.
MatMul(a, b) ==
    << MatRow(a, b, 1), MatRow(a, b, 2), MatRow(a, b, 3), MatRow(a, b, 4) >>

\* glm::scale(v).
Scale(v) ==
    << <<v[1], 0, 0, 0>>, <<0, v[2], 0, 0>>, <<0, 0, v[3], 0>>, <<0, 0, 0, 1000>> >>

\* glm::translate(v).
Translate(v) ==
    << <<1000, 0, 0, v[1]>>, <<0, 1000, 0, v[2]>>, <<0, 0, 1000, v[3]>>,
       <<0, 0, 0, 1000>> >>

\* glm::rotate(glm::radians(degrees), axis) for a unit axis with whole
\* components.
Rotate(degrees, axis) ==
    LET c == CosDeg(degrees)
        s == SinDeg(degrees)
        temp == << (1000 - c) * axis[1], (1000 - c) * axis[2], (1000 - c) * axis[3] >>
    IN  << << c + temp[1] * axis[1], temp[2] * axis[1] - s * axis[3],
              temp[3] * axis[1] + s * axis[2], 0 >>,
           << temp[1] * axis[2] + s * axis[3], c + temp[2] * axis[2],
              temp[3] * axis[2] - s * axis[1], 0 >>,
           << temp[1] * axis[3] - s * axis[2], temp[2] * axis[3] + s * axis[1],
              c + temp[3] * axis[3], 0 >>,
           << 0, 0, 0, 1000 >> >>

\* The product with the three rotations in the opposite order.
ComposeModel_XYZ(translation, rotationZ, rotationY, rotationX, scale) ==
    MatMul(translation, MatMul(rotationX, MatMul(rotationY, MatMul(rotationZ, scale))))

\* modelView = translation * rotationZ * rotationY * rotationX * scale.
ComposeModel(translation, rotationZ, rotationY, rotationX, scale) ==
    MatMul(translation, MatMul(rotationZ, MatMul(rotationY, MatMul(rotationX, scale))))

\* The matrix SetTransformations builds.
ModelView(scaleXYZ, XrotationDegrees, YrotationDegrees, ZrotationDegrees, positionXYZ) ==
    ComposeModel(Translate(positionXYZ),
                 Rotate(ZrotationDegrees, <<0, 0, 1>>),
                 Rotate(YrotationDegrees, <<0, 1, 0>>),
                 Rotate(XrotationDegrees, <<1, 0, 0>>),
                 Scale(scaleXYZ))

\* ------------------------------------------------------------------ shader uniforms

\* m_pShaderManager->set...Value(name, value).
Write(u, name, value) ==
    [n \in DOMAIN u \cup {name} |-> IF n = name THEN value ELSE u[n]]

RECURSIVE WriteAll(_, _)
WriteAll(u, writes) ==
    IF Len(writes) = 0
    THEN u
    ELSE WriteAll(Write(u, Head(writes)[1], Head(writes)[2]), Tail(writes))

\* The writes of a method that tests NULL != m_pShaderManager first.
Guarded(writes) ==
    IF m_pShaderManager # "NULL" THEN writes ELSE << >>

\* The effect of calls made through m_pShaderManager with no test: with a
\* null pointer the first of them is a call through NULL, after which the
\* process crashes or carries on with nothing written.
ThroughShader(writes, crash) ==
    IF Len(writes) = 0
    THEN UNCHANGED << uniforms, nullDeref, halted >>
    ELSE IF m_pShaderManager = "NULL"
    THEN /\ nullDeref' = TRUE
         /\ halted' = crash
         /\ uniforms' = uniforms
    ELSE /\ uniforms' = WriteAll(uniforms, writes)
         /\ UNCHANGED << nullDeref, halted >>

\* SetTransformations(scaleXYZ, X, Y, Z, positionXYZ).
SetTransformations(scaleXYZ, XrotationDegrees, YrotationDegrees, ZrotationDegrees, positionXYZ) ==
    LET modelView == ModelView(scaleXYZ, XrotationDegrees, YrotationDegrees,
                               ZrotationDegrees, positionXYZ)
        writes == Guarded(<< <<"model", modelView>> >>)
    IN  /\ ThroughShader(writes, FALSE)
        /\ lastCall' = Call("SetTransformations", "",
                            << scaleXYZ, XrotationDegrees, YrotationDegrees,
                               ZrotationDegrees, positionXYZ >>, 0, 0, 0, writes)
        /\ UNCHANGED << m_pShaderManager, registry, glState, createLog >>

\* SetShaderColor without the write of bUseTexture.
SetShaderColor_ColorOnly(redColorValue, greenColorValue, blueColorValue, alphaValue) ==
    LET currentColor == << redColorValue, greenColorValue, blueColorValue, alphaValue >>
        writes == Guarded(<< <<"objectColor", currentColor>> >>)
    IN  /\ ThroughShader(writes, FALSE)
        /\ lastCall' = Call("SetShaderColor", "", currentColor, 0, 0, 0, writes)
        /\ UNCHANGED << m_pShaderManager, registry, glState, createLog >>

\* SetShaderColor(red, green, blue, alpha).
SetShaderColor(redColorValue, greenColorValue, blueColorValue, alphaValue) ==
    LET currentColor == << redColorValue, greenColorValue, blueColorValue, alphaValue >>
        writes == Guarded(<< <<"bUseTexture", 0>>, <<"objectColor", currentColor>> >>)
    IN  /\ ThroughShader(writes, FALSE)
        /\ lastCall' = Call("SetShaderColor", "", currentColor, 0, 0, 0, writes)
        /\ UNCHANGED << m_pShaderManager, registry, glState, createLog >>

\* SetShaderTexture without the write of bUseTexture.
SetShaderTexture_SamplerOnly(textureTag) ==
    LET textureID == FindTextureSlot(textureTag)
        writes == Guarded(<< <<"objectTexture", textureID>> >>)
    IN  /\ ThroughShader(writes, FALSE)
        /\ lastCall' = Call("SetShaderTexture", textureTag, 0, textureID, 0, 0, writes)
        /\ UNCHANGED << m_pShaderManager, registry, glState, createLog >>

\* SetShaderTexture writing nothing when the tag has no slot.
SetShaderTexture_SkipOnMiss(textureTag) ==
    LET textureID == FindTextureSlot(textureTag)
        writes == IF textureID = NotFound
                  THEN << >>
                  ELSE Guarded(<< <<"bUseTexture", 1>>, <<"objectTexture", textureID>> >>)
    IN  /\ ThroughShader(writes, FALSE)
        /\ lastCall' = Call("SetShaderTexture", textureTag, 0, textureID, 0, 0, writes)
        /\ UNCHANGED << m_pShaderManager, registry, glState, createLog >>

\* SetShaderTexture(textureTag).
SetShaderTexture(textureTag) ==
    LET textureID == FindTextureSlot(textureTag)
        writes == Guarded(<< <<"bUseTexture", 1>>, <<"objectTexture", textureID>> >>)
    IN  /\ ThroughShader(writes, FALSE)
        /\ lastCall' = Call("SetShaderTexture", textureTag, 0, textureID, 0, 0, writes)
        /\ UNCHANGED << m_pShaderManager, registry, glState, createLog >>

\* SetTextureUVScale(u, v).
SetTextureUVScale(u, v) ==
    LET writes == Guarded(<< <<"UVscale", <<u, v>> >> >>)
    IN  /\ ThroughShader(writes, FALSE)
        /\ lastCall' = Call("SetTextureUVScale", "", <<u, v>>, 0, 0, 0, writes)
        /\ UNCHANGED << m_pShaderManager, registry, glState, createLog >>

\* SetShaderMaterial(materialTag), whose local material holds `indeterminate`
\* before FindMaterial is called.
SetShaderMaterial(materialTag, indeterminate, crash) ==
    LET r == FindMaterial(materialTag, indeterminate)
        writes ==
            IF Len(m_objectMaterials) > 0 /\ r.ret = TRUE
            THEN << <<"material.diffuseColor", r.material.diffuseColor>>,
                    <<"material.specularColor", r.material.specularColor>>,
                    <<"material.shininess", r.material.shininess>> >>
            ELSE << >>
    IN  /\ ThroughShader(writes, crash)
        /\ lastCall' = Call("SetShaderMaterial", materialTag, indeterminate, r.ret,
                            r.steps, r.material,
                            IF m_pShaderManager = "NULL" THEN << >> ELSE writes)
        /\ UNCHANGED << m_pShaderManager, registry, glState, createLog >>

\* The uniforms of SetupSceneLights without the second light's bActive.
SceneLights_OneActive ==
    << <<"bUseLighting", TRUE>>,
       <<"pointLights[0].position", <<16000, 25000, 1500>> >>,
       <<"pointLights[0].ambient", <<350, 350, 350>> >>,
       <<"pointLights[0].diffuse", <<700, 700, 800>> >>,
       <<"pointLights[0].specular", <<500, 500, 600>> >>,
       <<"pointLights[0].bActive", TRUE>>,
       <<"pointLights[1].position", <<-14000, 25000, -10000>> >>,
       <<"pointLights[1].ambient", <<350, 350, 350>> >>,
       <<"pointLights[1].diffuse", <<700, 700, 800>> >>,
       <<"pointLights[1].specular", <<500, 500, 600>> >> >>

\* The uniforms SetupSceneLights writes.
SceneLights ==
    << <<"bUseLighting", TRUE>>,
       <<"pointLights[0].position", <<16000, 25000, 1500>> >>,
       <<"pointLights[0].ambient", <<350, 350, 350>> >>,
       <<"pointLights[0].diffuse", <<700, 700, 800>> >>,
       <<"pointLights[0].specular", <<500, 500, 600>> >>,
       <<"pointLights[0].bActive", TRUE>>,
       <<"pointLights[1].position", <<-14000, 25000, -10000>> >>,
       <<"pointLights[1].ambient", <<350, 350, 350>> >>,
       <<"pointLights[1].diffuse", <<700, 700, 800>> >>,
       <<"pointLights[1].specular", <<500, 500, 600>> >>,
       <<"pointLights[1].bActive", TRUE>> >>

\* SetupSceneLights().
SetupSceneLights(crash) ==
    /\ ThroughShader(SceneLights, crash)
    /\ lastCall' = Call("SetupSceneLights", "", 0, 0, 0, 0,
                        IF m_pShaderManager = "NULL" THEN << >> ELSE SceneLights)
    /\ UNCHANGED << m_pShaderManager, registry, glState, createLog >>

\* ------------------------------------------------------------------ construction

\* SceneManager(pShaderManager): the members before any texture or material.
\* The ID of an entry that was never written is indeterminate; 0, which
\* glGenTextures never returns, stands for it.
Constructed(shader) ==
    /\ m_pShaderManager = shader
    /\ m_textureIDs = [i \in TextureIndices |-> [tag |-> "", ID |-> 0]]
    /\ m_loadedTextures = 0
    /\ m_objectMaterials = << >>
    /\ glGenerated = 0
    /\ glActiveUnit = 0
    /\ glTexUnit = [u \in TextureIndices |-> 0]
    /\ imagesLive = 0
    /\ uniforms = << >>
    /\ nullDeref = FALSE
    /\ halted = FALSE
    /\ meshes = {}
    /\ pc = << "caller", 0 >>
    /\ frames = 0
    /\ bindCalls = 0
    /\ drawCalls = 0
    /\ frameLog = << >>
    /\ drawLog = << >>
    /\ prevFrame = << << >>, << >> >>
    /\ createLog = << >>
    /\ lastCall = NoCall

\* ~SceneManager(): the two pointers are cleared and m_basicMeshes deleted.
Destructor ==
    /\ m_pShaderManager' = "NULL"
    /\ meshes' = {}
    /\ pc' = << "destroyed", 0 >>
    /\ lastCall' = Call("~SceneManager", "", 0, 0, 0, 0, << >>)
    /\ UNCHANGED << registry, glState, shaderState, halted, files, frames, bindCalls,
                    drawCalls, frameLog, drawLog, prevFrame, createLog >>

\* ------------------------------------------------------------------ texture specification

FailedCalls == Cardinality({i \in 1..Len(createLog) : ~createLog[i].ret})

\* Every call of the texture specification carries a tag of its own.
NextTag == TagPool[Len(createLog) + 1]

NextImages ==
    IF FailedCalls < MaxFailedLoads THEN DecodeResults ELSE {3, 4}

TexInit == Constructed("shader") /\ files = AllDecode

TexCreate ==
    /\ ~halted
    /\ m_loadedTextures < NumTextureUnits + MaxOverflow
    /\ Len(createLog) < Len(TagPool)
    /\ \E image \in NextImages, outcome \in {"carry on", "crash"} :
           CreateGLTexture(image, NextTag, outcome)
    /\ UNCHANGED sceneState

TexFindID ==
    /\ ~halted
    /\ \E tag \in ProbeTags : CallFindTextureID(tag)
    /\ UNCHANGED sceneState

TexFindSlot ==
    /\ ~halted
    /\ \E tag \in ProbeTags : CallFindTextureSlot(tag)
    /\ UNCHANGED sceneState

TexNext == TexCreate \/ TexFindID \/ TexFindSlot

TextureSpec == TexInit /\ [][TexNext]_vars

\* ------------------------------------------------------------------ claims on the texture registry

\* The successful registrations, in call order.
Successes == SelectSeq(createLog, LAMBDA c : c.ret)

TagsDistinct(log) ==
    \A i, j \in 1..Len(log) : log[i].tag = log[j].tag => i = j

RegisteredTags == {Successes[k].tag : k \in 1..Len(Successes)}

\* C1: with at most 16 successful registrations, m_loadedTextures is their
\* number, the k-th of them (from 0) is the entry at index k, and when the
\* tags of all calls are distinct FindTextureSlot of its tag is k and
\* FindTextureID of its tag is the ID stored there.
C1_SequentialSlots ==
    Len(Successes) <= NumTextureUnits =>
        /\ m_loadedTextures = Len(Successes)
        /\ \A k \in 0..(Len(Successes) - 1) :
               /\ m_textureIDs[k].tag = Successes[k + 1].tag
               /\ TagsDistinct(createLog) =>
                      /\ FindTextureSlot(Successes[k + 1].tag) = k
                      /\ FindTextureID(Successes[k + 1].tag) = m_textureIDs[k].ID

\* Sixteen registrations with distinct tags and a failed call among them.
C1_Witness ==
    /\ Len(Successes) = NumTextureUnits
    /\ TagsDistinct(createLog)
    /\ \E i \in 1..(Len(createLog) - 1) : ~createLog[i].ret
    /\ FindTextureSlot(Successes[NumTextureUnits].tag) = NumTextureUnits - 1

\* C2: a CreateGLTexture call whose image is not decoded, or has a channel
\* count other than 3 and 4, returns false, leaves m_textureIDs and
\* m_loadedTextures as they were, and every tag resolves as it did before.
C2_FailedLoadLeavesRegistry ==
    [][(/\ createLog' # createLog
        /\ lastCall'.op = "CreateGLTexture"
        /\ lastCall'.arg \notin {3, 4})
           => /\ lastCall'.ret = FALSE
              /\ m_loadedTextures' = m_loadedTextures
              /\ m_textureIDs' = m_textureIDs
              /\ \A tag \in AllTags :
                     /\ FindTextureSlot(tag)' = FindTextureSlot(tag)
                     /\ FindTextureID(tag)' = FindTextureID(tag)]_vars

\* A failed call whose tag does not resolve, followed by a registration.
C2_Witness ==
    /\ Len(createLog) >= 2
    /\ ~createLog[Len(createLog) - 1].ret
    /\ createLog[Len(createLog)].ret
    /\ FindTextureSlot(createLog[Len(createLog) - 1].tag) = NotFound
    /\ FindTextureSlot(createLog[Len(createLog)].tag) = m_loadedTextures - 1

\* C3: m_loadedTextures never exceeds 16 and no entry is written at index 16
\* or above.
C3_CappedAtTextureUnits ==
    /\ m_loadedTextures <= NumTextureUnits
    /\ \A i \in TextureIndices : i >= NumTextureUnits => m_textureIDs[i].tag = ""

\* C4: while the array has not been overrun, a tag that was never registered
\* gives -1 from FindTextureSlot and from FindTextureID after at most
\* m_loadedTextures comparisons, and a call of either leaves the registry as
\* it was.
C4_UnregisteredTag ==
    /\ [](m_loadedTextures <= NumTextureUnits =>
            \A tag \in AllTags \ RegisteredTags :
                LET slot == FindTextureSlotLoop(tag, NotFound, 0, FALSE, 0)
                    id == FindTextureIDLoop(tag, NotFound, 0, FALSE, 0)
                IN  /\ FindTextureSlot(tag) = NotFound
                    /\ FindTextureID(tag) = NotFound
                    /\ slot.steps <= m_loadedTextures
                    /\ id.steps <= m_loadedTextures)
    /\ [][(/\ lastCall'.op \in {"FindTextureSlot", "FindTextureID"}
           /\ lastCall'.tag \notin RegisteredTags
           /\ m_loadedTextures <= NumTextureUnits)
              => /\ lastCall'.ret = NotFound
                 /\ lastCall'.steps <= m_loadedTextures
                 /\ UNCHANGED registry]_vars

\* Both lookups have missed: one in the empty registry, one in a full one.
C4_Witness ==
    /\ lastCall.op \in {"FindTextureSlot", "FindTextureID"}
    /\ lastCall.tag \notin RegisteredTags
    /\ lastCall.ret = NotFound
    /\ m_loadedTextures = NumTextureUnits
    /\ lastCall.steps = NumTextureUnits

\* ------------------------------------------------------------------ material specification

MatInit == Constructed("shader") /\ files = AllDecode

MatPush ==
    /\ Len(m_objectMaterials) < MaxMaterials
    /\ \E material \in MaterialInputs : PushMaterial(material)
    /\ UNCHANGED sceneState

MatDefine ==
    /\ Len(m_objectMaterials) + 4 <= MaxMaterials
    /\ DefineObjectMaterials
    /\ UNCHANGED sceneState

MatFind ==
    /\ \E tag \in MaterialTags \cup {MissingMaterial}, material \in IndeterminateMaterials :
           CallFindMaterial(tag, material)
    /\ UNCHANGED sceneState

MatNext == MatPush \/ MatDefine \/ MatFind

MaterialSpec == MatInit /\ [][MatNext]_vars

\* ------------------------------------------------------------------ claims on the material table

\* The indices (from 1) of the materials defined with a tag.
DefinedAt(tag) == {i \in 1..Len(m_objectMaterials) : m_objectMaterials[i].tag = tag}

FirstDefined(tag) ==
    m_objectMaterials[CHOOSE i \in DefinedAt(tag) : \A j \in DefinedAt(tag) : i <= j]

\* C5: after FindMaterial with a defined tag, every field of the caller's
\* material equals the value the material was defined with.
C5_MaterialRoundTrip ==
    (lastCall.op = "FindMaterial" /\ DefinedAt(lastCall.tag) # {}) =>
        /\ lastCall.ret = TRUE
        /\ lastCall.out.ambientColor = FirstDefined(lastCall.tag).ambientColor
        /\ lastCall.out.ambientStrength = FirstDefined(lastCall.tag).ambientStrength
        /\ lastCall.out.diffuseColor = FirstDefined(lastCall.tag).diffuseColor
        /\ lastCall.out.specularColor = FirstDefined(lastCall.tag).specularColor
        /\ lastCall.out.shininess = FirstDefined(lastCall.tag).shininess

\* C6: FindMaterial returns false exactly when the table is empty; with a
\* table that is not empty and a tag that matches no entry it returns true
\* and the caller's material is what it was before the call.
C6_FalseOnlyWhenEmpty ==
    lastCall.op = "FindMaterial" =>
        /\ lastCall.ret = FALSE <=> Len(m_objectMaterials) = 0
        /\ (Len(m_objectMaterials) > 0 /\ DefinedAt(lastCall.tag) = {}) =>
               /\ lastCall.ret = TRUE
               /\ lastCall.out = lastCall.arg

\* FindMaterial has missed in a table that is not empty.
C6_Witness ==
    /\ lastCall.op = "FindMaterial"
    /\ Len(m_objectMaterials) >= 2
    /\ DefinedAt(lastCall.tag) = {}
    /\ lastCall.ret = TRUE
    /\ lastCall.out \in IndeterminateMaterials

\* C7: FindMaterial gives the diffuseColor, specularColor and shininess of
\* the first material defined with the tag, however many follow, and pushing
\* a material under a tag that is already defined changes no lookup.
C7_FirstMatchWins ==
    /\ [](\A tag \in MaterialTags, material \in IndeterminateMaterials :
              DefinedAt(tag) # {} =>
                  LET r == FindMaterial(tag, material) IN
                  /\ r.index + 1 \in DefinedAt(tag)
                  /\ \A j \in DefinedAt(tag) : r.index + 1 <= j
                  /\ r.material.diffuseColor = FirstDefined(tag).diffuseColor
                  /\ r.material.specularColor = FirstDefined(tag).specularColor
                  /\ r.material.shininess = FirstDefined(tag).shininess)
    /\ [][\A tag \in MaterialTags, material \in IndeterminateMaterials :
              (m_objectMaterials' # m_objectMaterials /\ DefinedAt(tag) # {}) =>
                  FindMaterial(tag, material)' = FindMaterial(tag, material)]_vars

\* stoneMAT looked up with two different materials defined under it.
C7_Witness ==
    /\ lastCall.op = "FindMaterial"
    /\ Cardinality(DefinedAt(lastCall.tag)) >= 2
    /\ \E i, j \in DefinedAt(lastCall.tag) :
           /\ i < j
           /\ m_objectMaterials[i].diffuseColor # m_objectMaterials[j].diffuseColor
           /\ lastCall.out.diffuseColor = m_objectMaterials[i].diffuseColor

\* ------------------------------------------------------------------ transform specification

\* The arguments SetTransformations is called with.
ScaleInputs == { <<1000, 1000, 1000>>, <<2000, 3000, 4000>> }

DegreeInputs == {0, 90, 180, -90}

PositionInputs == { <<0, 0, 0>>, <<5000, -6000, 7000>> }

XfInit == files = AllDecode /\ \E shader \in {"NULL", "shader"} : Constructed(shader)

XfSet ==
    /\ \E scaleXYZ \in ScaleInputs, X \in DegreeInputs, Y \in DegreeInputs,
          Z \in DegreeInputs, positionXYZ \in PositionInputs :
           SetTransformations(scaleXYZ, X, Y, Z, positionXYZ)
    /\ UNCHANGED sceneState

XfNext == XfSet

TransformSpec == XfInit /\ [][XfNext]_vars

\* ------------------------------------------------------------------ shader specification

ShInit == files = AllDecode /\ \E shader \in {"NULL", "shader"} : Constructed(shader)

ShDefine ==
    /\ ~halted
    /\ Len(m_objectMaterials) = 0
    /\ DefineObjectMaterials
    /\ UNCHANGED sceneState

ShCreate ==
    /\ ~halted
    /\ m_loadedTextures = 0
    /\ CreateGLTexture(3, TagPool[1], "carry on")
    /\ UNCHANGED sceneState

ShTransform ==
    /\ ~halted
    /\ SetTransformations(<<25000, 1000, 15000>>, 90, 0, 0, <<0, 15000, -15000>>)
    /\ UNCHANGED sceneState

ShColor ==
    /\ ~halted
    /\ \E rgba \in { <<500, 520, 550, 1000>>, <<150, 150, 150, 1000>> } :
           SetShaderColor(rgba[1], rgba[2], rgba[3], rgba[4])
    /\ UNCHANGED sceneState

ShTexture ==
    /\ ~halted
    /\ \E tag \in ProbeTags : SetShaderTexture(tag)
    /\ UNCHANGED sceneState

ShUVScale ==
    /\ ~halted
    /\ SetTextureUVScale(2000, 2000)
    /\ UNCHANGED sceneState

ShMaterial ==
    /\ ~halted
    /\ \E tag \in {"stoneMAT", MissingMaterial},
          indeterminate \in IndeterminateMaterials, crash \in BOOLEAN :
           SetShaderMaterial(tag, indeterminate, crash)
    /\ UNCHANGED sceneState

ShLights ==
    /\ ~halted
    /\ \E crash \in BOOLEAN : SetupSceneLights(crash)
    /\ UNCHANGED sceneState

ShNext ==
    \/ ShDefine \/ ShCreate \/ ShTransform \/ ShColor \/ ShTexture \/ ShUVScale
    \/ ShMaterial \/ ShLights

ShaderSpec == ShInit /\ [][ShNext]_vars

\* ------------------------------------------------------------------ claims on the shader writers

\* C9: with a null m_pShaderManager no shader-writing method writes a
\* uniform or calls through the null pointer.
C9_NullShaderNoOp ==
    m_pShaderManager = "NULL" => (DOMAIN uniforms = {} /\ ~nullDeref)

\* What SetTransformations is to do to a point: scale it, turn it about X,
\* then about Y, then about Z, then move it.
ScalePoint(s, p) ==
    << (s[1] * p[1]) \div 1000, (s[2] * p[2]) \div 1000, (s[3] * p[3]) \div 1000 >>

AboutX(d, p) ==
    << p[1],
       (CosDeg(d) * p[2] - SinDeg(d) * p[3]) \div 1000,
       (SinDeg(d) * p[2] + CosDeg(d) * p[3]) \div 1000 >>

AboutY(d, p) ==
    << (CosDeg(d) * p[1] + SinDeg(d) * p[3]) \div 1000,
       p[2],
       (CosDeg(d) * p[3] - SinDeg(d) * p[1]) \div 1000 >>

AboutZ(d, p) ==
    << (CosDeg(d) * p[1] - SinDeg(d) * p[2]) \div 1000,
       (SinDeg(d) * p[1] + CosDeg(d) * p[2]) \div 1000,
       p[3] >>

MovePoint(t, p) == << p[1] + t[1], p[2] + t[2], p[3] + t[3] >>

Transformed(a, p) ==
    MovePoint(a[5], AboutZ(a[4], AboutY(a[3], AboutX(a[2], ScalePoint(a[1], p)))))

\* The image of a point under a mat4.
Image(m, p) ==
    << (m[1][1] * p[1] + m[1][2] * p[2] + m[1][3] * p[3] + m[1][4] * 1000) \div 1000,
       (m[2][1] * p[1] + m[2][2] * p[2] + m[2][3] * p[3] + m[2][4] * 1000) \div 1000,
       (m[3][1] * p[1] + m[3][2] * p[2] + m[3][3] * p[3] + m[3][4] * 1000) \div 1000 >>

TestPoints ==
    { <<0, 0, 0>>, <<1000, 0, 0>>, <<0, 1000, 0>>, <<0, 0, 1000>>, <<1000, 2000, 3000>> }

\* C10: after SetTransformations with a shader attached, the "model"
\* uniform takes every point to its image under scale, then rotation about
\* X, then Y, then Z, then translation; with scale (1,1,1), rotation
\* (90,0,0) and position 0 it takes +Z to -Y.
C10_CompositionOrder ==
    (lastCall.op = "SetTransformations" /\ m_pShaderManager # "NULL") =>
        /\ "model" \in DOMAIN uniforms
        /\ lastCall.writes = << <<"model", uniforms["model"]>> >>
        /\ \A p \in TestPoints :
               Image(uniforms["model"], p) = Transformed(lastCall.arg, p)
        /\ lastCall.arg = << <<1000, 1000, 1000>>, 90, 0, 0, <<0, 0, 0>> >> =>
               Image(uniforms["model"], <<0, 0, 1000>>) = <<0, -1000, 0>>

\* The product with the rotations multiplied in the order o (1 is X, 2 is
\* Y, 3 is Z).
InOrder(a, o) ==
    LET rot == << Rotate(a[2], <<1, 0, 0>>), Rotate(a[3], <<0, 1, 0>>),
                  Rotate(a[4], <<0, 0, 1>>) >>
    IN  MatMul(Translate(a[5]),
               MatMul(rot[o[1]], MatMul(rot[o[2]], MatMul(rot[o[3]], Scale(a[1])))))

\* SetTransformations was called with a rotation about X and one about Y,
\* a scale and a position: the matrix is the one with Y applied after X, and
\* every order that applies X after Y gives another matrix.
C10_Witness ==
    /\ lastCall.op = "SetTransformations"
    /\ m_pShaderManager # "NULL"
    /\ lastCall.arg[2] # 0 /\ lastCall.arg[3] # 0 /\ lastCall.arg[4] = 0
    /\ lastCall.arg[1] = <<2000, 3000, 4000>>
    /\ lastCall.arg[5] # <<0, 0, 0>>
    /\ uniforms["model"] = InOrder(lastCall.arg, <<3, 2, 1>>)
    /\ \A o \in { <<1, 2, 3>>, <<1, 3, 2>>, <<3, 1, 2>> } :
           uniforms["model"] # InOrder(lastCall.arg, o)

\* ------------------------------------------------------------------ scene

\* Frames the caller renders.
MaxFrames == 2

\* LoadSceneTextures with BindGLTextures before the last registration.
LoadSceneTextures_BindEarly ==
    << <<"CreateGLTexture", "textures/asphalt-floor.png", "floor">>,
       <<"CreateGLTexture", "textures/concrete-stones.png", "atlas-stone">>,
       <<"CreateGLTexture", "textures/concrete-walls.png", "walls">>,
       <<"CreateGLTexture", "textures/rubber-bench.png", "bench">>,
       <<"CreateGLTexture", "textures/metal-beams.png", "metal">>,
       <<"CreateGLTexture", "textures/wood-base.png", "wood">>,
       <<"BindGLTextures">>,
       <<"CreateGLTexture", "textures/dumbbells.png", "dbell">> >>

\* LoadSceneTextures(): the calls it makes, in order.
LoadSceneTextures ==
    << <<"CreateGLTexture", "textures/asphalt-floor.png", "floor">>,
       <<"CreateGLTexture", "textures/concrete-stones.png", "atlas-stone">>,
       <<"CreateGLTexture", "textures/concrete-walls.png", "walls">>,
       <<"CreateGLTexture", "textures/rubber-bench.png", "bench">>,
       <<"CreateGLTexture", "textures/metal-beams.png", "metal">>,
       <<"CreateGLTexture", "textures/wood-base.png", "wood">>,
       <<"CreateGLTexture", "textures/dumbbells.png", "dbell">>,
       <<"BindGLTextures">> >>

\* PrepareScene(): the calls it makes, in order.
PrepareScene ==
    LoadSceneTextures \o
    << <<"DefineObjectMaterials">>,
       <<"SetupSceneLights">>,
       <<"LoadPlaneMesh">>,
       <<"LoadBoxMesh">>,
       <<"LoadCylinderMesh">>,
       <<"LoadSphereMesh">> >>

\* The floor plane without its SetTextureUVScale call.
FloorPlane_NoUVScale ==
    << <<"SetTransformations", <<25000, 1000, 15000>>, 0, 0, 0, <<0, 0, 0>>>>,
       <<"SetShaderColor", 500, 520, 550, 1000>>,
       <<"SetShaderMaterial", "stoneMAT">>,
       <<"SetShaderTexture", "floor">>,
       <<"DrawPlaneMesh">> >>

\* The first command of RenderScene, the floor plane.
FloorPlane ==
    << <<"SetTransformations", <<25000, 1000, 15000>>, 0, 0, 0, <<0, 0, 0>>>>,
       <<"SetShaderColor", 500, 520, 550, 1000>>,
       <<"SetShaderMaterial", "stoneMAT">>,
       <<"SetTextureUVScale", 2000, 2000>>,
       <<"SetShaderTexture", "floor">>,
       <<"DrawPlaneMesh">> >>

\* The commands of RenderScene after the floor plane.
SceneAfterFloor ==
    << <<"SetTransformations", <<25000, 1000, 15000>>, 90, 0, 0, <<0, 15000, -15000>>>>,
       <<"SetShaderColor", 600, 620, 650, 1000>>,
       <<"SetShaderMaterial", "stoneMAT">>,
       <<"SetTextureUVScale", 3000, 3000>>,
       <<"SetShaderTexture", "walls">>,
       <<"DrawPlaneMesh">>,
       <<"SetTransformations", <<4350, 500, 4350>>, 0, 0, 0, <<16000, 8000, 6000>>>>,
       <<"SetShaderColor", 1000, 894, 769, 1000>>,
       <<"SetShaderMaterial", "woodMAT">>,
       <<"SetTextureUVScale", 5000, 77000>>,
       <<"SetShaderTexture", "wood">>,
       <<"DrawBoxMesh">>,
       <<"SetTransformations", <<4350, 500, 4350>>, 0, 0, 0, <<16000, 7500, 6000>>>>,
       <<"SetShaderColor", 150, 150, 150, 1000>>,
       <<"SetShaderMaterial", "metalMAT">>,
       <<"SetShaderTexture", "metal">>,
       <<"DrawBoxMesh">>,
       <<"SetTransformations", <<500, 500, 7500>>, 90, 0, 0, <<16500, 3950, 4150>>>>,
       <<"SetShaderColor", 150, 150, 150, 1000>>,
       <<"SetShaderMaterial", "metalMAT">>,
       <<"SetShaderTexture", "metal">>,
       <<"DrawBoxMesh">>,
       <<"SetTransformations", <<500, 500, 7500>>, 90, 0, 0, <<16500, 3950, 7900>>>>,
       <<"SetShaderColor", 150, 150, 150, 1000>>,
       <<"SetShaderMaterial", "metalMAT">>,
       <<"SetShaderTexture", "metal">>,
       <<"DrawBoxMesh">>,
       <<"SetTransformations", <<500, 500, 4500>>, 0, 90, 0, <<16250, 250, 7900>>>>,
       <<"SetShaderColor", 150, 150, 150, 1000>>,
       <<"SetShaderMaterial", "metalMAT">>,
       <<"SetShaderTexture", "metal">>,
       <<"DrawBoxMesh">>,
       <<"SetTransformations", <<500, 500, 4500>>, 0, 90, 0, <<16250, 250, 4125>>>>,
       <<"SetShaderColor", 150, 150, 150, 1000>>,
       <<"SetShaderMaterial", "metalMAT">>,
       <<"SetShaderTexture", "metal">>,
       <<"DrawBoxMesh">>,
       <<"SetTransformations", <<500, 500, 4500>>, 0, 0, 90, <<18250, 250, 6000>>>>,
       <<"SetShaderColor", 150, 150, 150, 1000>>,
       <<"SetShaderMaterial", "metalMAT">>,
       <<"SetShaderTexture", "metal">>,
       <<"DrawBoxMesh">>,
       <<"SetTransformations", <<1000, 100, 1000>>, 0, 0, 0, <<16000, 7155, -3000>>>>,
       <<"SetShaderColor", 150, 150, 150, 1000>>,
       <<"DrawCylinderMesh">>,
       <<"SetTransformations", <<4350, 500, 4350>>, 0, 0, 0, <<16000, 7000, -3000>>>>,
       <<"SetShaderColor", 1000, 894, 769, 1000>>,
       <<"SetShaderMaterial", "woodMAT">>,
       <<"SetTextureUVScale", 5000, 77000>>,
       <<"SetShaderTexture", "wood">>,
       <<"DrawBoxMesh">>,
       <<"SetTransformations", <<4350, 500, 4350>>, 0, 0, 0, <<16000, 6500, -3000>>>>,
       <<"SetShaderColor", 150, 150, 150, 1000>>,
       <<"SetShaderMaterial", "metalMAT">>,
       <<"SetShaderTexture", "metal">>,
       <<"DrawBoxMesh">>,
       <<"SetTransformations", <<500, 500, 6500>>, 90, 0, 0, <<16500, 3125, -4925>>>>,
       <<"SetShaderColor", 150, 150, 150, 1000>>,
       <<"SetShaderMaterial", "metalMAT">>,
       <<"SetShaderTexture", "metal">>,
       <<"DrawBoxMesh">>,
       <<"SetTransformations", <<500, 500, 6500>>, 90, 0, 0, <<16500, 3125, -1075>>>>,
       <<"SetShaderColor", 150, 150, 150, 1000>>,
       <<"SetShaderMaterial", "metalMAT">>,
       <<"SetShaderTexture", "metal">>,
       <<"DrawBoxMesh">>,
       <<"SetTransformations", <<500, 500, 4500>>, 0, 90, 0, <<16250, 250, -4925>>>>,
       <<"SetShaderColor", 150, 150, 150, 1000>>,
       <<"SetShaderMaterial", "metalMAT">>,
       <<"SetShaderTexture", "metal">>,
       <<"DrawBoxMesh">>,
       <<"SetTransformations", <<500, 500, 4500>>, 0, 90, 0, <<16250, 250, -1075>>>>,
       <<"SetShaderColor", 150, 150, 150, 1000>>,
       <<"SetShaderMaterial", "metalMAT">>,
       <<"SetShaderTexture", "metal">>,
       <<"DrawBoxMesh">>,
       <<"SetTransformations", <<500, 500, 4500>>, 0, 0, 90, <<18250, 250, -3000>>>>,
       <<"SetShaderColor", 150, 150, 150, 1000>>,
       <<"SetShaderMaterial", "metalMAT">>,
       <<"SetShaderTexture", "metal">>,
       <<"DrawBoxMesh">>,
       <<"SetTransformations", <<1000, 100, 1000>>, 0, 0, 0, <<16000, 8155, 6000>>>>,
       <<"SetShaderColor", 150, 150, 150, 1000>>,
       <<"DrawCylinderMesh">>,
       <<"SetTransformations", <<2250, 2250, 2250>>, 0, 0, 0, <<10000, 2350, -3000>>>>,
       <<"SetShaderColor", 725, 725, 655, 1000>>,
       <<"SetTextureUVScale", 2000, 2000>>,
       <<"SetShaderMaterial", "stoneMAT">>,
       <<"SetShaderTexture", "atlas-stone">>,
       <<"DrawSphereMesh">>,
       <<"SetTransformations", <<1750, 1750, 1750>>, 0, 0, 0, <<10000, 1950, 6000>>>>,
       <<"SetShaderColor", 725, 725, 655, 1000>>,
       <<"SetTextureUVScale", 2000, 2000>>,
       <<"SetShaderMaterial", "stoneMAT">>,
       <<"SetShaderTexture", "atlas-stone">>,
       <<"DrawSphereMesh">>,
       <<"SetTransformations", <<500, 2500, 10750>>, 0, 0, 90, <<-15250, 3025, 3000>>>>,
       <<"SetShaderColor", 150, 150, 150, 1000>>,
       <<"SetTextureUVScale", 750, 750>>,
       <<"SetShaderMaterial", "rubberMAT">>,
       <<"SetShaderTexture", "bench">>,
       <<"DrawBoxMesh">>,
       <<"SetTransformations", <<1075, 500, 3500>>, 0, 90, 0, <<-15250, 250, -1250>>>>,
       <<"SetShaderColor", 250, 250, 250, 1000>>,
       <<"SetTextureUVScale", 35000, 35000>>,
       <<"SetShaderMaterial", "metalMAT">>,
       <<"SetShaderTexture", "metal">>,
       <<"DrawBoxMesh">>,
       <<"SetTransformations", <<1075, 1000, 2850>>, 90, 0, 0, <<-15250, 1345, -1250>>>>,
       <<"SetShaderColor", 250, 250, 250, 1000>>,
       <<"SetTextureUVScale", 35000, 35000>>,
       <<"SetShaderMaterial", "metalMAT">>,
       <<"SetShaderTexture", "metal">>,
       <<"DrawBoxMesh">>,
       <<"SetTransformations", <<1075, 500, 3500>>, 0, 90, 0, <<-15250, 250, 7150>>>>,
       <<"SetShaderColor", 250, 250, 250, 1000>>,
       <<"SetTextureUVScale", 35000, 35000>>,
       <<"SetShaderMaterial", "metalMAT">>,
       <<"SetShaderTexture", "metal">>,
       <<"DrawBoxMesh">>,
       <<"SetTransformations", <<1075, 1000, 2850>>, 90, 0, 0, <<-15250, 1345, 7150>>>>,
       <<"SetShaderColor", 250, 250, 250, 1000>>,
       <<"SetTextureUVScale", 35000, 35000>>,
       <<"SetShaderMaterial", "metalMAT">>,
       <<"SetShaderTexture", "metal">>,
       <<"DrawBoxMesh">>,
       <<"SetTransformations", <<500, 2500, 10750>>, 0, 0, 90, <<-5250, 3025, 3000>>>>,
       <<"SetShaderColor", 150, 150, 150, 1000>>,
       <<"SetTextureUVScale", 750, 750>>,
       <<"SetShaderMaterial", "rubberMAT">>,
       <<"SetShaderTexture", "bench">>,
       <<"DrawBoxMesh">>,
       <<"SetTransformations", <<1075, 500, 3500>>, 0, 90, 0, <<-5250, 250, -1250>>>>,
       <<"SetShaderColor", 250, 250, 250, 1000>>,
       <<"SetTextureUVScale", 35000, 35000>>,
       <<"SetShaderMaterial", "metalMAT">>,
       <<"SetShaderTexture", "metal">>,
       <<"DrawBoxMesh">>,
       <<"SetTransformations", <<1075, 1000, 2850>>, 90, 0, 0, <<-5250, 1345, -1250>>>>,
       <<"SetShaderColor", 250, 250, 250, 1000>>,
       <<"SetTextureUVScale", 35000, 35000>>,
       <<"SetShaderMaterial", "metalMAT">>,
       <<"SetShaderTexture", "metal">>,
       <<"DrawBoxMesh">>,
       <<"SetTransformations", <<1075, 500, 3500>>, 0, 90, 0, <<-5250, 250, 7150>>>>,
       <<"SetShaderColor", 250, 250, 250, 1000>>,
       <<"SetTextureUVScale", 35000, 35000>>,
       <<"SetShaderMaterial", "metalMAT">>,
       <<"SetShaderTexture", "metal">>,
       <<"DrawBoxMesh">>,
       <<"SetTransformations", <<1075, 1000, 2850>>, 90, 0, 0, <<-5250, 1345, 7150>>>>,
       <<"SetShaderColor", 250, 250, 250, 1000>>,
       <<"SetTextureUVScale", 35000, 35000>>,
       <<"SetShaderMaterial", "metalMAT">>,
       <<"SetShaderTexture", "metal">>,
       <<"DrawBoxMesh">>,
       <<"SetTransformations", <<17500, 800, 400>>, 90, 0, 0, <<-10250, 5345, -10150>>>>,
       <<"SetShaderColor", 250, 250, 250, 1000>>,
       <<"SetTextureUVScale", 35000, 35000>>,
       <<"SetShaderMaterial", "metalMAT">>,
       <<"SetShaderTexture", "metal">>,
       <<"DrawBoxMesh">>,
       <<"SetTransformations", <<800, 3000, 1000>>, 90, 0, 0, <<-18600, 5000, -10150>>>>,
       <<"SetShaderColor", 250, 250, 250, 1000>>,
       <<"SetTextureUVScale", 35000, 35000>>,
       <<"SetShaderMaterial", "metalMAT">>,
       <<"SetShaderTexture", "metal">>,
       <<"DrawBoxMesh">>,
       <<"SetTransformations", <<800, 6000, 1000>>, -20, 0, 0, <<-18600, 2345, -8100>>>>,
       <<"SetShaderColor", 250, 250, 250, 1000>>,
       <<"SetTextureUVScale", 35000, 35000>>,
       <<"SetShaderMaterial", "metalMAT">>,
       <<"SetShaderTexture", "metal">>,
       <<"DrawBoxMesh">>,
       <<"SetTransformations", <<800, 6000, 1000>>, 20, 0, 0, <<-18600, 2345, -12150>>>>,
       <<"SetShaderColor", 250, 250, 250, 1000>>,
       <<"SetTextureUVScale", 35000, 35000>>,
       <<"SetShaderMaterial", "metalMAT">>,
       <<"SetShaderTexture", "metal">>,
       <<"DrawBoxMesh">>,
       <<"SetTransformations", <<800, 3000, 1000>>, 90, 0, 0, <<-10250, 5000, -10150>>>>,
       <<"SetShaderColor", 250, 250, 250, 1000>>,
       <<"SetTextureUVScale", 35000, 35000>>,
       <<"SetShaderMaterial", "metalMAT">>,
       <<"SetShaderTexture", "metal">>,
       <<"DrawBoxMesh">>,
       <<"SetTransformations", <<800, 6000, 1000>>, -20, 0, 0, <<-10250, 2345, -8100>>>>,
       <<"SetShaderColor", 250, 250, 250, 1000>>,
       <<"SetTextureUVScale", 35000, 35000>>,
       <<"SetShaderMaterial", "metalMAT">>,
       <<"SetShaderTexture", "metal">>,
       <<"DrawBoxMesh">>,
       <<"SetTransformations", <<800, 6000, 1000>>, 20, 0, 0, <<-10250, 2345, -12150>>>>,
       <<"SetShaderColor", 250, 250, 250, 1000>>,
       <<"SetTextureUVScale", 35000, 35000>>,
       <<"SetShaderMaterial", "metalMAT">>,
       <<"SetShaderTexture", "metal">>,
       <<"DrawBoxMesh">>,
       <<"SetTransformations", <<800, 3000, 1000>>, 90, 0, 0, <<-1900, 5000, -10150>>>>,
       <<"SetShaderColor", 250, 250, 250, 1000>>,
       <<"SetTextureUVScale", 35000, 35000>>,
       <<"SetShaderMaterial", "metalMAT">>,
       <<"SetShaderTexture", "metal">>,
       <<"DrawBoxMesh">>,
       <<"SetTransformations", <<800, 6000, 1000>>, -20, 0, 0, <<-1900, 2345, -8100>>>>,
       <<"SetShaderColor", 250, 250, 250, 1000>>,
       <<"SetTextureUVScale", 35000, 35000>>,
       <<"SetShaderMaterial", "metalMAT">>,
       <<"SetShaderTexture", "metal">>,
       <<"DrawBoxMesh">>,
       <<"SetTransformations", <<800, 6000, 1000>>, 20, 0, 0, <<-1900, 2345, -12150>>>>,
       <<"SetShaderColor", 250, 250, 250, 1000>>,
       <<"SetTextureUVScale", 35000, 35000>>,
       <<"SetShaderMaterial", "metalMAT">>,
       <<"SetShaderTexture", "metal">>,
       <<"DrawBoxMesh">>,
       <<"SetTransformations", <<200, 1200, 200>>, 90, 0, 0, <<-17500, 5750, -10750>>>>,
       <<"SetShaderColor", 250, 250, 250, 1000>>,
       <<"SetTextureUVScale", 1000, 1000>>,
       <<"SetShaderMaterial", "metalMAT">>,
       <<"SetShaderTexture", "dbell">>,
       <<"DrawCylinderMesh">>,
       <<"SetTransformations", <<750, 750, 750>>, 0, 0, 0, <<-17500, 5750, -11450>>>>,
       <<"SetShaderColor", 250, 250, 250, 1000>>,
       <<"SetTextureUVScale", 1000, 1000>>,
       <<"SetShaderMaterial", "metalMAT">>,
       <<"SetShaderTexture", "dbell">>,
       <<"DrawSphereMesh">>,
       <<"SetTransformations", <<750, 750, 750>>, 0, 0, 0, <<-17500, 5750, -8850>>>>,
       <<"SetShaderColor", 250, 250, 250, 1000>>,
       <<"SetTextureUVScale", 1000, 1000>>,
       <<"SetShaderMaterial", "metalMAT">>,
       <<"SetShaderTexture", "dbell">>,
       <<"DrawSphereMesh">>,
       <<"SetTransformations", <<200, 1200, 200>>, 90, 0, 0, <<-15750, 5750, -10750>>>>,
       <<"SetShaderColor", 250, 250, 250, 1000>>,
       <<"SetTextureUVScale", 1000, 1000>>,
       <<"SetShaderMaterial", "metalMAT">>,
       <<"SetShaderTexture", "dbell">>,
       <<"DrawCylinderMesh">>,
       <<"SetTransformations", <<750, 750, 750>>, 0, 0, 0, <<-15750, 5750, -11450>>>>,
       <<"SetShaderColor", 250, 250, 250, 1000>>,
       <<"SetTextureUVScale", 1000, 1000>>,
       <<"SetShaderMaterial", "metalMAT">>,
       <<"SetShaderTexture", "dbell">>,
       <<"DrawSphereMesh">>,
       <<"SetTransformations", <<750, 750, 750>>, 0, 0, 0, <<-15750, 5750, -8850>>>>,
       <<"SetShaderColor", 250, 250, 250, 1000>>,
       <<"SetTextureUVScale", 1000, 1000>>,
       <<"SetShaderMaterial", "metalMAT">>,
       <<"SetShaderTexture", "dbell">>,
       <<"DrawSphereMesh">>,
       <<"SetTransformations", <<200, 1200, 200>>, 90, 0, 0, <<-13500, 5750, -10750>>>>,
       <<"SetShaderColor", 250, 250, 250, 1000>>,
       <<"SetTextureUVScale", 1000, 1000>>,
       <<"SetShaderMaterial", "metalMAT">>,
       <<"SetShaderTexture", "dbell">>,
       <<"DrawCylinderMesh">>,
       <<"SetTransformations", <<875, 875, 875>>, 0, 0, 0, <<-13500, 5750, -11550>>>>,
       <<"SetShaderColor", 250, 250, 250, 1000>>,
       <<"SetTextureUVScale", 1000, 1000>>,
       <<"SetShaderMaterial", "metalMAT">>,
       <<"SetShaderTexture", "dbell">>,
       <<"DrawSphereMesh">>,
       <<"SetTransformations", <<875, 875, 875>>, 0, 0, 0, <<-13500, 5750, -8750>>>>,
       <<"SetShaderColor", 250, 250, 250, 1000>>,
       <<"SetTextureUVScale", 1000, 1000>>,
       <<"SetShaderMaterial", "metalMAT">>,
       <<"SetShaderTexture", "dbell">>,
       <<"DrawSphereMesh">>,
       <<"SetTransformations", <<200, 1200, 200>>, 90, 0, 0, <<-11500, 5750, -10750>>>>,
       <<"SetShaderColor", 250, 250, 250, 1000>>,
       <<"SetTextureUVScale", 1000, 1000>>,
       <<"SetShaderMaterial", "metalMAT">>,
       <<"SetShaderTexture", "dbell">>,
       <<"DrawCylinderMesh">>,
       <<"SetTransformations", <<875, 875, 875>>, 0, 0, 0, <<-11500, 5750, -11550>>>>,
       <<"SetShaderColor", 250, 250, 250, 1000>>,
       <<"SetTextureUVScale", 1000, 1000>>,
       <<"SetShaderMaterial", "metalMAT">>,
       <<"SetShaderTexture", "dbell">>,
       <<"DrawSphereMesh">>,
       <<"SetTransformations", <<875, 875, 875>>, 0, 0, 0, <<-11500, 5750, -8750>>>>,
       <<"SetShaderColor", 250, 250, 250, 1000>>,
       <<"SetTextureUVScale", 1000, 1000>>,
       <<"SetShaderMaterial", "metalMAT">>,
       <<"SetShaderTexture", "dbell">>,
       <<"DrawSphereMesh">>,
       <<"SetTransformations", <<200, 1200, 200>>, 90, 0, 0, <<-8850, 5750, -10750>>>>,
       <<"SetShaderColor", 250, 250, 250, 1000>>,
       <<"SetTextureUVScale", 1000, 1000>>,
       <<"SetShaderMaterial", "metalMAT">>,
       <<"SetShaderTexture", "dbell">>,
       <<"DrawCylinderMesh">>,
       <<"SetTransformations", <<1000, 1000, 1000>>, 0, 0, 0, <<-8850, 5750, -11650>>>>,
       <<"SetShaderColor", 250, 250, 250, 1000>>,
       <<"SetTextureUVScale", 1000, 1000>>,
       <<"SetShaderMaterial", "metalMAT">>,
       <<"SetShaderTexture", "dbell">>,
       <<"DrawSphereMesh">>,
       <<"SetTransformations", <<1000, 1000, 1000>>, 0, 0, 0, <<-8850, 5750, -8650>>>>,
       <<"SetShaderColor", 250, 250, 250, 1000>>,
       <<"SetTextureUVScale", 1000, 1000>>,
       <<"SetShaderMaterial", "metalMAT">>,
       <<"SetShaderTexture", "dbell">>,
       <<"DrawSphereMesh">>,
       <<"SetTransformations", <<200, 1200, 200>>, 90, 0, 0, <<-6850, 5750, -10750>>>>,
       <<"SetShaderColor", 250, 250, 250, 1000>>,
       <<"SetTextureUVScale", 1000, 1000>>,
       <<"SetShaderMaterial", "metalMAT">>,
       <<"SetShaderTexture", "dbell">>,
       <<"DrawCylinderMesh">>,
       <<"SetTransformations", <<1000, 1000, 1000>>, 0, 0, 0, <<-6850, 5750, -11650>>>>,
       <<"SetShaderColor", 250, 250, 250, 1000>>,
       <<"SetTextureUVScale", 1000, 1000>>,
       <<"SetShaderMaterial", "metalMAT">>,
       <<"SetShaderTexture", "dbell">>,
       <<"DrawSphereMesh">>,
       <<"SetTransformations", <<1000, 1000, 1000>>, 0, 0, 0, <<-6850, 5750, -8650>>>>,
       <<"SetShaderColor", 250, 250, 250, 1000>>,
       <<"SetTextureUVScale", 1000, 1000>>,
       <<"SetShaderMaterial", "metalMAT">>,
       <<"SetShaderTexture", "dbell">>,
       <<"DrawSphereMesh">>,
       <<"SetTransformations", <<200, 1200, 200>>, 90, 0, 0, <<-9350, 1150, 1550>>>>,
       <<"SetShaderColor", 250, 250, 250, 1000>>,
       <<"SetTextureUVScale", 1000, 1000>>,
       <<"SetShaderMaterial", "metalMAT">>,
       <<"SetShaderTexture", "dbell">>,
       <<"DrawCylinderMesh">>,
       <<"SetTransformations", <<1200, 1200, 1200>>, 0, 0, 0, <<-9350, 1150, 3875>>>>,
       <<"SetShaderColor", 250, 250, 250, 1000>>,
       <<"SetTextureUVScale", 1000, 1000>>,
       <<"SetShaderMaterial", "metalMAT">>,
       <<"SetShaderTexture", "dbell">>,
       <<"DrawSphereMesh">>,
       <<"SetTransformations", <<1200, 1200, 1200>>, 0, 0, 0, <<-9350, 1150, 475>>>>,
       <<"SetShaderColor", 250, 250, 250, 1000>>,
       <<"SetTextureUVScale", 1000, 1000>>,
       <<"SetShaderMaterial", "metalMAT">>,
       <<"SetShaderTexture", "dbell">>,
       <<"DrawSphereMesh">>,
       <<"SetTransformations", <<200, 1200, 200>>, 90, 0, 0, <<-1150, 1150, 1550>>>>,
       <<"SetShaderColor", 250, 250, 250, 1000>>,
       <<"SetTextureUVScale", 1000, 1000>>,
       <<"SetShaderMaterial", "metalMAT">>,
       <<"SetShaderTexture", "dbell">>,
       <<"DrawCylinderMesh">>,
       <<"SetTransformations", <<1200, 1200, 1200>>, 0, 0, 0, <<-1150, 1150, 3875>>>>,
       <<"SetShaderColor", 250, 250, 250, 1000>>,
       <<"SetTextureUVScale", 1000, 1000>>,
       <<"SetShaderMaterial", "metalMAT">>,
       <<"SetShaderTexture", "dbell">>,
       <<"DrawSphereMesh">>,
       <<"SetTransformations", <<1200, 1200, 1200>>, 0, 0, 0, <<-1150, 1150, 475>>>>,
       <<"SetShaderColor", 250, 250, 250, 1000>>,
       <<"SetTextureUVScale", 1000, 1000>>,
       <<"SetShaderMaterial", "metalMAT">>,
       <<"SetShaderTexture", "dbell">>,
       <<"DrawSphereMesh">> >>

\* RenderScene(): the calls it makes, in order, with the values its locals
\* hold at each call.
RenderScene == FloorPlane \o SceneAfterFloor

LoadCalls == {"LoadPlaneMesh", "LoadBoxMesh", "LoadCylinderMesh", "LoadSphereMesh"}

DrawCalls == {"DrawPlaneMesh", "DrawBoxMesh", "DrawCylinderMesh", "DrawSphereMesh"}

\* The statements of the method pc is in.
Body == IF pc[1] = "PrepareScene" THEN PrepareScene ELSE RenderScene

\* The call pc is at.
Statement == Body[pc[2]]

\* pc is at a call of `op`.
At(op) ==
    /\ ~halted
    /\ pc[1] \in {"PrepareScene", "RenderScene"}
    /\ pc[2] <= Len(Body)
    /\ Statement[1] = op

\* Move on to the next statement; a call of RenderScene goes into the log of
\* the frame, a draw with the uniforms it is made under.
Advance ==
    /\ pc' = << pc[1], pc[2] + 1 >>
    /\ frameLog' = IF pc[1] = "RenderScene"
                   THEN Append(frameLog, [op |-> lastCall'.op, tag |-> lastCall'.tag,
                                          writes |-> lastCall'.writes])
                   ELSE frameLog
    /\ drawLog' = IF Statement[1] \in DrawCalls THEN Append(drawLog, uniforms) ELSE drawLog
    /\ UNCHANGED << meshes, files, frames, prevFrame >>

\* The caller enters PrepareScene on a manager that was just constructed.
CallPrepareScene ==
    /\ pc = << "caller", 0 >>
    /\ pc' = << "PrepareScene", 1 >>
    /\ UNCHANGED << m_pShaderManager, registry, glState, shaderState, halted,
                    meshes, files, frames, bindCalls, drawCalls, frameLog, drawLog,
                    prevFrame, createLog, lastCall >>

\* The caller enters RenderScene for a frame of a prepared scene.
CallRenderScene ==
    /\ pc = << "caller", 1 >>
    /\ frames < MaxFrames
    /\ pc' = << "RenderScene", 1 >>
    /\ prevFrame' = << frameLog, drawLog >>
    /\ frameLog' = << >>
    /\ drawLog' = << >>
    /\ UNCHANGED << m_pShaderManager, registry, glState, shaderState, halted,
                    meshes, files, frames, bindCalls, drawCalls, createLog, lastCall >>

\* The closing brace of PrepareScene or RenderScene.
Return ==
    /\ ~halted
    /\ pc[1] \in {"PrepareScene", "RenderScene"}
    /\ pc[2] = Len(Body) + 1
    /\ pc' = << "caller", 1 >>
    /\ frames' = IF pc[1] = "RenderScene" THEN frames + 1 ELSE frames
    /\ UNCHANGED << m_pShaderManager, registry, glState, shaderState, halted,
                    meshes, files, bindCalls, drawCalls, frameLog, drawLog, prevFrame,
                    createLog, lastCall >>

StepCreateGLTexture ==
    /\ At("CreateGLTexture")
    /\ \E outcome \in {"carry on", "crash"} :
           CreateGLTexture(files[Statement[2]], Statement[3], outcome)
    /\ Advance
    /\ UNCHANGED << bindCalls, drawCalls >>

StepBindGLTextures ==
    /\ At("BindGLTextures")
    /\ BindGLTextures
    /\ Advance
    /\ bindCalls' = bindCalls + 1
    /\ UNCHANGED drawCalls

StepDefineObjectMaterials ==
    /\ At("DefineObjectMaterials")
    /\ DefineObjectMaterials
    /\ Advance
    /\ UNCHANGED << bindCalls, drawCalls >>

StepSetupSceneLights ==
    /\ At("SetupSceneLights")
    /\ \E crash \in BOOLEAN : SetupSceneLights(crash)
    /\ Advance
    /\ UNCHANGED << bindCalls, drawCalls >>

\* m_basicMeshes->Load...Mesh().
StepLoadMesh ==
    /\ \E op \in LoadCalls : At(op)
    /\ meshes' = meshes \cup {Statement[1]}
    /\ pc' = << pc[1], pc[2] + 1 >>
    /\ lastCall' = Call(Statement[1], "", 0, 0, 0, 0, << >>)
    /\ UNCHANGED << m_pShaderManager, registry, glState, shaderState, halted,
                    files, frames, bindCalls, drawCalls, frameLog, drawLog, prevFrame,
                    createLog >>

StepSetTransformations ==
    /\ At("SetTransformations")
    /\ SetTransformations(Statement[2], Statement[3], Statement[4], Statement[5],
                          Statement[6])
    /\ Advance
    /\ UNCHANGED << bindCalls, drawCalls >>

StepSetShaderColor ==
    /\ At("SetShaderColor")
    /\ SetShaderColor(Statement[2], Statement[3], Statement[4], Statement[5])
    /\ Advance
    /\ UNCHANGED << bindCalls, drawCalls >>

StepSetShaderMaterial ==
    /\ At("SetShaderMaterial")
    /\ \E indeterminate \in IndeterminateMaterials, crash \in BOOLEAN :
           SetShaderMaterial(Statement[2], indeterminate, crash)
    /\ Advance
    /\ UNCHANGED << bindCalls, drawCalls >>

StepSetTextureUVScale ==
    /\ At("SetTextureUVScale")
    /\ SetTextureUVScale(Statement[2], Statement[3])
    /\ Advance
    /\ UNCHANGED << bindCalls, drawCalls >>

\* The SetShaderTexture statement with RenderScene returning when the tag
\* does not resolve.
StepSetShaderTexture_ReturnOnMiss ==
    /\ At("SetShaderTexture")
    /\ SetShaderTexture(Statement[2])
    /\ IF FindTextureSlot(Statement[2]) = NotFound
       THEN /\ pc' = << pc[1], Len(Body) + 1 >>
            /\ UNCHANGED << meshes, files, frames, prevFrame, frameLog, drawLog >>
       ELSE Advance
    /\ UNCHANGED << bindCalls, drawCalls >>

StepSetShaderTexture ==
    /\ At("SetShaderTexture")
    /\ SetShaderTexture(Statement[2])
    /\ Advance
    /\ UNCHANGED << bindCalls, drawCalls >>

\* m_basicMeshes->Draw...Mesh().
StepDrawMesh ==
    /\ \E op \in DrawCalls : At(op)
    /\ lastCall' = Call(Statement[1], "", 0, 0, 0, 0, << >>)
    /\ Advance
    /\ drawCalls' = drawCalls + 1
    /\ UNCHANGED << m_pShaderManager, registry, glState, shaderState, halted,
                    bindCalls, createLog >>

SceneInit ==
    /\ files \in FileScenarios
    /\ Constructed("shader")

SceneNext ==
    \/ CallPrepareScene \/ CallRenderScene \/ Return
    \/ StepCreateGLTexture \/ StepBindGLTextures \/ StepDefineObjectMaterials
    \/ StepSetupSceneLights \/ StepLoadMesh
    \/ StepSetTransformations \/ StepSetShaderColor \/ StepSetShaderMaterial
    \/ StepSetTextureUVScale \/ StepSetShaderTexture \/ StepDrawMesh

SceneSpec == SceneInit /\ [][SceneNext]_vars

\* ------------------------------------------------------------------ claims on the scene

\* The CreateGLTexture calls of PrepareScene.
Registrations ==
    {k \in 1..Len(PrepareScene) : PrepareScene[k][1] = "CreateGLTexture"}

\* Texture i is on unit i for every i below m_loadedTextures, and that unit
\* is what FindTextureSlot gives for the tag of texture i.
BoundBySlot ==
    \A i \in 0..(m_loadedTextures - 1) :
        /\ glTexUnit[i] = m_textureIDs[i].ID
        /\ FindTextureSlot(m_textureIDs[i].tag) = i
        /\ glTexUnit[FindTextureSlot(m_textureIDs[i].tag)]
               = FindTextureID(m_textureIDs[i].tag)

\* C8: BindGLTextures runs when PrepareScene has attempted every one of its
\* texture registrations and no draw call has been made; from then on
\* texture i is on unit i for every i below m_loadedTextures, which is the
\* value FindTextureSlot returns for its tag; and no draw call is made
\* before BindGLTextures has run.
C8_BindAfterLoadsBeforeDraws ==
    /\ [](bindCalls >= 1 => BoundBySlot)
    /\ [](drawCalls >= 1 => bindCalls >= 1)
    /\ [][bindCalls' # bindCalls =>
             /\ Len(createLog) = Cardinality(Registrations)
             /\ \A k \in Registrations :
                    \E i \in 1..Len(createLog) : createLog[i].tag = PrepareScene[k][3]
             /\ drawCalls = 0
             /\ BoundBySlot']_vars

\* A draw of a dumbbell in a scene whose metal texture failed to load: six
\* textures are bound, dbell on unit 5, and the shader samples unit 5.
C8_Witness ==
    /\ lastCall.op \in DrawCalls
    /\ bindCalls = 1
    /\ m_loadedTextures = Cardinality(Registrations) - 1
    /\ "objectTexture" \in DOMAIN uniforms
    /\ uniforms["objectTexture"] = FindTextureSlot("dbell")
    /\ FindTextureSlot("dbell") = m_loadedTextures - 1
    /\ glTexUnit[m_loadedTextures - 1] = FindTextureID("dbell")
    /\ FindTextureID("dbell") > 0

\* PrepareScene has returned.
Ready == pc[1] = "caller" /\ pc[2] = 1

\* The tags of the texture entries in use, by slot.
TextureTagsBySlot == [i \in 0..(m_loadedTextures - 1) |-> m_textureIDs[i].tag]

\* The tags of the material table, in order.
MaterialTagsInOrder == [i \in 1..Len(m_objectMaterials) |-> m_objectMaterials[i].tag]

\* The point lights whose bActive uniform is true.
ActiveLights ==
    {k \in 0..3 :
        LET name == CASE k = 0 -> "pointLights[0].bActive"
                      [] k = 1 -> "pointLights[1].bActive"
                      [] k = 2 -> "pointLights[2].bActive"
                      [] k = 3 -> "pointLights[3].bActive"
        IN  name \in DOMAIN uniforms /\ uniforms[name] = TRUE}

\* C11: once PrepareScene has returned with every file decoded, the texture
\* table holds floor, atlas-stone, walls, bench, metal, wood, dbell in slots
\* 0 to 6 and nothing else, the material table holds stoneMAT, metalMAT,
\* woodMAT, rubberMAT and nothing else, point lights 0 and 1 and no others
\* are active, and bUseLighting is true.
C11_RegistryAfterPrepare ==
    (Ready /\ files = AllDecode) =>
        /\ m_loadedTextures = 7
        /\ TextureTagsBySlot =
               [i \in 0..6 |-> << "floor", "atlas-stone", "walls", "bench", "metal",
                                  "wood", "dbell" >>[i + 1]]
        /\ \A i \in 0..6 : FindTextureSlot(TextureTagsBySlot[i]) = i
        /\ Len(m_objectMaterials) = 4
        /\ MaterialTagsInOrder = << "stoneMAT", "metalMAT", "woodMAT", "rubberMAT" >>
        /\ ActiveLights = {0, 1}
        /\ "bUseLighting" \in DOMAIN uniforms
        /\ uniforms["bUseLighting"] = TRUE

\* PrepareScene has just returned with every file decoded.
C11_Witness ==
    /\ Ready
    /\ files = AllDecode
    /\ frames = 0
    /\ lastCall.op = "LoadSphereMesh"
    /\ meshes = LoadCalls
    /\ m_loadedTextures = 7

\* The positions of the draws in the log of the frame.
DrawsIn(log) == {j \in 1..Len(log) : log[j].op \in DrawCalls}

\* The position of the draw before position j of the log, 0 when none.
DrawBefore(log, j) ==
    LET earlier == {i \in DrawsIn(log) : i < j}
    IN  IF earlier = {} THEN 0 ELSE CHOOSE i \in earlier : \A k \in earlier : k <= i

\* The calls of `op` in the log after position i and before position j.
CallsBetween(log, op, i, j) == {k \in (i + 1)..(j - 1) : log[k].op = op}

\* C12: a RenderScene call that has returned made 64 draws, whatever files
\* failed to load in PrepareScene, and in every frame exactly one
\* SetTransformations call lies between a draw and the draw before it (the
\* start of the frame for the first draw).
C12_DrawPerCommand ==
    /\ (Ready /\ frames >= 1) =>
           /\ Cardinality(DrawsIn(frameLog)) = 64
           /\ Len(drawLog) = 64
           /\ drawCalls = 64 * frames
    /\ \A j \in DrawsIn(frameLog) :
           Cardinality(CallsBetween(frameLog, "SetTransformations",
                                    DrawBefore(frameLog, j), j)) = 1

\* A frame has been rendered in full with no texture registered at all.
C12_Witness ==
    /\ Ready
    /\ frames = 1
    /\ m_loadedTextures = 0
    /\ Len(createLog) = Cardinality(Registrations)
    /\ Len(drawLog) = 64
    /\ lastCall.op \in DrawCalls

\* The first n entries of a log.
Prefix(log, n) == SubSeq(log, 1, n)

\* C13: in a frame rendered after another with no registration or material
\* definition in between, every call so far, with its tag and its uniform
\* writes, and every draw so far, with the uniforms in effect at it, is what
\* the frame before had at the same position, and a frame that has returned
\* has the same calls and draws as the frame before it.
C13_FramesIdentical ==
    /\ (frames >= 1 /\ pc[1] = "RenderScene") =>
           /\ Len(frameLog) <= Len(prevFrame[1])
           /\ frameLog = Prefix(prevFrame[1], Len(frameLog))
           /\ Len(drawLog) <= Len(prevFrame[2])
           /\ drawLog = Prefix(prevFrame[2], Len(drawLog))
    /\ (frames >= 2 /\ Ready) =>
           /\ frameLog = prevFrame[1]
           /\ drawLog = prevFrame[2]

\* The second frame has returned: it wrote uniforms and drew, the first draw
\* of the first frame was made under the uniforms of PrepareScene and of its
\* own command, and the frame ended with other values in them.
C13_Witness ==
    /\ Ready
    /\ frames = 2
    /\ Len(drawLog) = Cardinality(DrawsIn(frameLog))
    /\ Len(drawLog) > 1
    /\ \E k \in 1..Len(frameLog) : Len(frameLog[k].writes) > 0
    /\ uniforms # prevFrame[2][1]
    /\ drawLog[1] = prevFrame[2][1]

\* The uniforms a draw is made under: model matrix, texture flag, colour,
\* sampler, UV scale and material.
DrawUniforms ==
    { "model", "bUseTexture", "objectColor", "objectTexture", "UVscale",
      "material.diffuseColor", "material.specularColor", "material.shininess" }

\* The uniforms written by the calls of the log after position i and before
\* position j.
WrittenBetween(log, i, j) ==
    UNION { {log[k].writes[w][1] : w \in 1..Len(log[k].writes)} : k \in (i + 1)..(j - 1) }

\* The number of the draw at position j of the log, counted from 1.
DrawNumber(log, j) == Cardinality({i \in DrawsIn(log) : i <= j})

\* C14: at every draw of RenderScene, each of the draw's uniforms that holds
\* a value was written by a call made since the draw before it, so the
\* uniforms the draw is made under come from its own command alone.
C14_CommandsIndependent ==
    \A j \in DrawsIn(frameLog) :
        \A name \in DrawUniforms \cap DOMAIN drawLog[DrawNumber(frameLog, j)] :
            name \in WrittenBetween(frameLog, DrawBefore(frameLog, j), j)

\* C15: in a RenderScene that follows a PrepareScene in which every file
\* decoded, every tag given to SetShaderTexture has a slot (FindTextureSlot
\* is not -1) and every tag given to SetShaderMaterial is the tag of an entry
\* of the material table, which FindMaterial finds.
C15_ReferencedTagsResolve ==
    (files = AllDecode /\ Len(frameLog) > 0 /\ lastCall.op = frameLog[Len(frameLog)].op) =>
        /\ lastCall.op = "SetShaderTexture" =>
               /\ lastCall.ret # NotFound
               /\ lastCall.ret = FindTextureSlot(lastCall.tag)
               /\ m_textureIDs[lastCall.ret].tag = lastCall.tag
        /\ lastCall.op = "SetShaderMaterial" =>
               /\ DefinedAt(lastCall.tag) # {}
               /\ lastCall.ret = TRUE
               /\ FindMaterial(lastCall.tag, lastCall.arg).bFound = TRUE

\* The last textured and the last material-carrying command of a frame have
\* been reached with every file decoded: all the tags of RenderScene have
\* been looked up.
C15_Witness ==
    /\ files = AllDecode
    /\ pc[1] = "RenderScene"
    /\ pc[2] = Len(RenderScene)
    /\ lastCall.op = "SetShaderTexture"
    /\ {frameLog[k].tag : k \in {i \in 1..Len(frameLog) : frameLog[i].op = "SetShaderTexture"}}
           = {"floor", "atlas-stone", "walls", "bench", "metal", "wood", "dbell"}
    /\ {frameLog[k].tag : k \in {i \in 1..Len(frameLog) : frameLog[i].op = "SetShaderMaterial"}}
           = {"stoneMAT", "metalMAT", "woodMAT", "rubberMAT"}

\* The calls of the command that ends with the draw at position j.
CommandCalls(log, op, j) == CallsBetween(log, op, DrawBefore(log, j), j)

\* C16 as claimed: a command with a SetShaderTexture call makes no
\* SetShaderColor call and writes no objectColor, a command without one
\* makes one SetShaderColor call and writes no objectTexture.
C16_OneModePushed ==
    \A j \in DrawsIn(frameLog) :
        LET written == WrittenBetween(frameLog, DrawBefore(frameLog, j), j) IN
        IF CommandCalls(frameLog, "SetShaderTexture", j) # {}
        THEN /\ CommandCalls(frameLog, "SetShaderColor", j) = {}
             /\ "objectColor" \notin written
             /\ "objectTexture" \in written
        ELSE /\ Cardinality(CommandCalls(frameLog, "SetShaderColor", j)) = 1
             /\ "objectColor" \in written
             /\ "objectTexture" \notin written

\* C16 amended: every command makes one SetShaderColor call, which pushes
\* bUseTexture false and its RGBA; a command with a texture tag then makes
\* one SetShaderTexture call and is drawn with bUseTexture true and the slot
\* of its tag; a command without one is drawn with bUseTexture false and its
\* RGBA.
C16_OneModeInEffect ==
    \A j \in DrawsIn(frameLog) :
        LET colors == CommandCalls(frameLog, "SetShaderColor", j)
            textures == CommandCalls(frameLog, "SetShaderTexture", j)
            atDraw == drawLog[DrawNumber(frameLog, j)]
        IN  /\ Cardinality(colors) = 1
            /\ Cardinality(textures) <= 1
            /\ \A c \in colors :
                   /\ frameLog[c].writes[1] = << "bUseTexture", 0 >>
                   /\ frameLog[c].writes[2][1] = "objectColor"
                   /\ \A t \in textures :
                          /\ c < t
                          /\ frameLog[t].writes[1] = << "bUseTexture", 1 >>
                          /\ frameLog[t].writes[2] =
                                 << "objectTexture", FindTextureSlot(frameLog[t].tag) >>
                          /\ atDraw["bUseTexture"] = 1
                          /\ atDraw["objectTexture"] = FindTextureSlot(frameLog[t].tag)
                   /\ textures = {} =>
                          /\ atDraw["bUseTexture"] = 0
                          /\ atDraw["objectColor"] = frameLog[c].writes[2][2]

\* A frame has drawn the textured floor plane and the untextured cylinder
\* that follows textured commands.
C16_Witness ==
    /\ Ready
    /\ frames >= 1
    /\ files = AllDecode
    /\ \E j \in DrawsIn(frameLog) :
           /\ CommandCalls(frameLog, "SetShaderTexture", j) = {}
           /\ drawLog[DrawNumber(frameLog, j)]["bUseTexture"] = 0
           /\ drawLog[DrawNumber(frameLog, j) - 1]["bUseTexture"] = 1
    /\ drawLog[1]["objectTexture"] = FindTextureSlot("floor")
    /\ drawLog[1]["objectColor"] = << 500, 520, 550, 1000 >>

\* The value of a uniform as a one-element tuple, the empty tuple while
\* nothing has written it.
Uniform(u, name) == IF name \in DOMAIN u THEN << u[name] >> ELSE << >>

\* C17: with a shader that is not null, SetShaderColor writes bUseTexture
\* false and objectColor, SetShaderTexture writes bUseTexture true and the
\* sampler index, each on every call, and no other call changes bUseTexture:
\* bUseTexture is true exactly when the later of the two was
\* SetShaderTexture.
C17_TextureFlagFollowsLastCall ==
    /\ []((m_pShaderManager # "NULL" /\ lastCall.op = "SetShaderColor") =>
              /\ lastCall.writes = << << "bUseTexture", 0 >>, << "objectColor", lastCall.arg >> >>
              /\ Uniform(uniforms, "bUseTexture") = << 0 >>
              /\ Uniform(uniforms, "objectColor") = << lastCall.arg >>)
    /\ []((m_pShaderManager # "NULL" /\ lastCall.op = "SetShaderTexture") =>
              /\ lastCall.writes = << << "bUseTexture", 1 >>, << "objectTexture", lastCall.ret >> >>
              /\ Uniform(uniforms, "bUseTexture") = << 1 >>
              /\ Uniform(uniforms, "objectTexture") = << lastCall.ret >>)
    /\ [][lastCall'.op \notin {"SetShaderColor", "SetShaderTexture"} =>
              Uniform(uniforms, "bUseTexture")' = Uniform(uniforms, "bUseTexture")]_vars

\* SetShaderTexture after SetShaderColor, and then other calls: the sampler
\* flag is still on.
C17_Witness ==
    /\ m_pShaderManager # "NULL"
    /\ lastCall.op = "SetTextureUVScale"
    /\ "objectColor" \in DOMAIN uniforms
    /\ "objectTexture" \in DOMAIN uniforms
    /\ "model" \in DOMAIN uniforms
    /\ uniforms["bUseTexture"] = 1

\* The tags of the registered textures.
Registered == {m_textureIDs[i].tag : i \in 0..(m_loadedTextures - 1)}

\* RenderScene has just called SetShaderTexture with a tag that is not
\* registered.
AfterLookupMiss ==
    /\ pc[1] = "RenderScene"
    /\ Len(frameLog) > 0
    /\ frameLog[Len(frameLog)].op = "SetShaderTexture"
    /\ lastCall.op = "SetShaderTexture"
    /\ lastCall.tag \notin Registered

\* C18: SetShaderTexture with a tag that is not registered writes
\* bUseTexture true and the sampler value -1, nothing crashes or is
\* reported, and the next step of RenderScene is the draw of the command,
\* made with the sampler at -1.
C18_LookupMissPassedThrough ==
    /\ [](AfterLookupMiss =>
              /\ lastCall.ret = NotFound
              /\ lastCall.writes = << << "bUseTexture", 1 >>, << "objectTexture", NotFound >> >>
              /\ Uniform(uniforms, "bUseTexture") = << 1 >>
              /\ Uniform(uniforms, "objectTexture") = << NotFound >>
              /\ ~halted
              /\ ~nullDeref
              /\ ENABLED StepDrawMesh)
    /\ [][AfterLookupMiss =>
              /\ drawCalls' = drawCalls + 1
              /\ Len(drawLog') = Len(drawLog) + 1
              /\ Uniform(drawLog'[Len(drawLog')], "objectTexture") = << NotFound >>
              /\ lastCall'.op \in DrawCalls]_vars

\* The floor plane has been drawn although floor was never registered, and
\* the frame has gone on to its end.
C18_Witness ==
    /\ Ready
    /\ frames >= 1
    /\ "floor" \notin Registered
    /\ "metal" \in Registered
    /\ drawLog[1]["objectTexture"] = NotFound
    /\ drawLog[1]["bUseTexture"] = 1
    /\ drawLog[Len(drawLog)]["objectTexture"] # NotFound

\* C19: SetShaderMaterial with a shader that is not null writes the
\* diffuseColor, specularColor and shininess of the first entry with the tag
\* when there is one, and writes nothing when no entry has the tag.
C19_MaterialWritesDefinedValues ==
    (m_pShaderManager # "NULL" /\ lastCall.op = "SetShaderMaterial") =>
        IF DefinedAt(lastCall.tag) # {}
        THEN lastCall.writes =
                 << << "material.diffuseColor", FirstDefined(lastCall.tag).diffuseColor >>,
                    << "material.specularColor", FirstDefined(lastCall.tag).specularColor >>,
                    << "material.shininess", FirstDefined(lastCall.tag).shininess >> >>
        ELSE lastCall.writes = << >>

\* ------------------------------------------------------------------ teardown specification

\* CreateGLTexture calls of a run of the teardown specification.
MaxTeardownLoads == 3

\* Texture names a run of the teardown specification lets GL hand out.
MaxTextureNames == 8

Alive == pc[1] # "destroyed"

TdInit == Constructed("shader") /\ files = AllDecode

TdCreate ==
    /\ Alive
    /\ Len(createLog) < MaxTeardownLoads
    /\ glGenerated < MaxTextureNames
    /\ \E image \in DecodeResults : CreateGLTexture(image, NextTag, "carry on")
    /\ UNCHANGED sceneState

TdBind ==
    /\ Alive
    /\ BindGLTextures
    /\ UNCHANGED sceneState

TdDestroyGLTextures ==
    /\ Alive
    /\ glGenerated + m_loadedTextures <= MaxTextureNames
    /\ DestroyGLTextures
    /\ UNCHANGED sceneState

TdDestructor ==
    /\ Alive
    /\ Destructor

TdNext == TdCreate \/ TdBind \/ TdDestroyGLTextures \/ TdDestructor

TeardownSpec == TdInit /\ [][TdNext]_vars

\* ------------------------------------------------------------------ claims on teardown

\* The texture names stored in the registered entries.
RegisteredIDs == {m_textureIDs[i].ID : i \in 0..(m_loadedTextures - 1)}

\* C20: DestroyGLTextures makes GL release the texture of every registered
\* entry, has GL hand out no new texture name and leaves the stored IDs as
\* they were, and the destructor leaves no registered texture held by GL.
C20_TexturesDestroyed ==
    [][/\ lastCall'.op = "DestroyGLTextures" =>
              /\ RegisteredIDs \cap glLiveTextures' = {}
              /\ glGenerated' = glGenerated
              /\ \A i \in 0..(m_loadedTextures - 1) : m_textureIDs'[i].ID = m_textureIDs[i].ID
       /\ lastCall'.op = "~SceneManager" =>
              RegisteredIDs \cap glLiveTextures' = {}]_vars

\* ------------------------------------------------------------------ ready specification

\* The tags the caller looks up once the scene is prepared.
ReadyTextureTags == {"floor", "dbell", MissingTag}

ReadyMaterialTags == {"stoneMAT", "rubberMAT", MissingMaterial}

\* The scene specification with the caller looking up textures and
\* materials between PrepareScene and the frames.
RdFindTextureID ==
    /\ ~halted
    /\ Ready
    /\ \E tag \in ReadyTextureTags : CallFindTextureID(tag)
    /\ UNCHANGED sceneState

RdFindTextureSlot ==
    /\ ~halted
    /\ Ready
    /\ \E tag \in ReadyTextureTags : CallFindTextureSlot(tag)
    /\ UNCHANGED sceneState

RdFindMaterial ==
    /\ ~halted
    /\ Ready
    /\ \E tag \in ReadyMaterialTags, material \in IndeterminateMaterials :
           CallFindMaterial(tag, material)
    /\ UNCHANGED sceneState

ReadyNext == SceneNext \/ RdFindTextureID \/ RdFindTextureSlot \/ RdFindMaterial

ReadySpec == SceneInit /\ [][ReadyNext]_vars

\* ------------------------------------------------------------------ claims on the prepared scene

\* C21: once PrepareScene has returned, no step of RenderScene and no lookup
\* changes m_textureIDs, m_loadedTextures or m_objectMaterials; a call of
\* FindTextureID, FindTextureSlot, FindMaterial, SetShaderTexture or
\* SetShaderMaterial changes none of them; and a step that does change one
\* is CreateGLTexture or DefineObjectMaterials inside PrepareScene, adding
\* entries after those there.
C21_RegistryReadOnly ==
    /\ [][(Ready \/ pc[1] = "RenderScene") => UNCHANGED registry]_vars
    /\ [][(/\ lastCall' # lastCall
           /\ lastCall'.op \in {"FindTextureID", "FindTextureSlot", "FindMaterial",
                                "SetShaderTexture", "SetShaderMaterial"})
              => UNCHANGED registry]_vars
    /\ [][registry' # registry =>
              /\ pc[1] = "PrepareScene"
              /\ lastCall'.op \in {"CreateGLTexture", "DefineObjectMaterials"}
              /\ m_loadedTextures' >= m_loadedTextures
              /\ \A i \in 0..(m_loadedTextures - 1) : m_textureIDs'[i] = m_textureIDs[i]
              /\ Len(m_objectMaterials') >= Len(m_objectMaterials)
              /\ SubSeq(m_objectMaterials', 1, Len(m_objectMaterials)) = m_objectMaterials]_vars

\* Two frames have been rendered and the caller has looked up a material
\* that is not defined: the tables are those PrepareScene left.
C21_Witness ==
    /\ Ready
    /\ frames >= 2
    /\ lastCall.op = "FindMaterial"
    /\ lastCall.tag = MissingMaterial
    /\ m_loadedTextures = Cardinality(Registrations)
    /\ MaterialTagsInOrder = << "stoneMAT", "metalMAT", "woodMAT", "rubberMAT" >>
    /\ Len(drawLog) > 0

\* ------------------------------------------------------------------ claims on CreateGLTexture's resources

\* C22: a CreateGLTexture call whose image was decoded returns with the
\* image freed and with texture 0 bound to GL_TEXTURE_2D on the active
\* unit, and when it registers nothing GL holds no texture name it did not
\* hold before the call.
C22_CreateReleasesResources ==
    [][(/\ createLog' # createLog
        /\ lastCall'.op = "CreateGLTexture"
        /\ lastCall'.arg # 0)
           => /\ imagesLive' = imagesLive
              /\ glTexUnit'[glActiveUnit'] = 0
              /\ lastCall'.ret = FALSE => glLiveTextures' = glLiveTextures]_vars

\* ------------------------------------------------------------------ repeat specification

\* PrepareScene calls the caller makes.
MaxPrepares == 2

\* The caller enters PrepareScene on a manager that is already prepared,
\* while the texture table has room for its registrations.
CallPrepareSceneAgain ==
    /\ ~halted
    /\ Ready
    /\ bindCalls < MaxPrepares
    /\ m_loadedTextures + Cardinality(Registrations) <= NumTextureUnits
    /\ pc' = << "PrepareScene", 1 >>
    /\ UNCHANGED << m_pShaderManager, registry, glState, shaderState, halted,
                    meshes, files, frames, bindCalls, drawCalls, frameLog, drawLog,
                    prevFrame, createLog, lastCall >>

RepeatNext ==
    \/ CallPrepareScene \/ CallPrepareSceneAgain \/ Return
    \/ StepCreateGLTexture \/ StepBindGLTextures \/ StepDefineObjectMaterials
    \/ StepSetupSceneLights \/ StepLoadMesh
    \/ RdFindTextureID \/ RdFindTextureSlot \/ RdFindMaterial

RepeatSpec == SceneInit /\ [][RepeatNext]_vars

\* ------------------------------------------------------------------ claims on a repeated PrepareScene

\* The tags of LoadSceneTextures and of DefineObjectMaterials, in order.
SceneTextureTags == << "floor", "atlas-stone", "walls", "bench", "metal", "wood", "dbell" >>

SceneMaterials == << stoneMAT, metalMAT, woodMaterial, rubberMaterial >>

\* What the lookups give once PrepareScene has run with every file decoded:
\* tag k of LoadSceneTextures is in slot k - 1 with the k-th texture name GL
\* handed out, material j of DefineObjectMaterials is found at index j - 1
\* with the values it was defined with.
FirstRunLookups ==
    /\ \A k \in 1..Len(SceneTextureTags) :
           /\ FindTextureSlot(SceneTextureTags[k]) = k - 1
           /\ FindTextureID(SceneTextureTags[k]) = k
    /\ \A j \in 1..Len(SceneMaterials), material \in IndeterminateMaterials :
           LET r == FindMaterial(SceneMaterials[j].tag, material) IN
           /\ r.ret = TRUE
           /\ r.index = j - 1
           /\ r.material.diffuseColor = SceneMaterials[j].diffuseColor
           /\ r.material.specularColor = SceneMaterials[j].specularColor
           /\ r.material.shininess = SceneMaterials[j].shininess

\* C23: with every file decoded, the lookups of the seven texture tags and
\* the four material tags give after the second PrepareScene what they gave
\* after the first, while m_loadedTextures and the size of the material
\* table are 7 and 4 times the number of runs made; and no step of a PrepareScene
\* changes the result of a lookup that already finds its tag.
C23_RepeatKeepsLookups ==
    /\ []((Ready /\ files = AllDecode) =>
              /\ bindCalls >= 1
              /\ FirstRunLookups
              /\ m_loadedTextures = Len(SceneTextureTags) * bindCalls
              /\ Len(m_objectMaterials) = Len(SceneMaterials) * bindCalls
              /\ \A i \in 0..(m_loadedTextures - 1) :
                     m_textureIDs[i].tag = SceneTextureTags[(i % Len(SceneTextureTags)) + 1])
    /\ [][\A k \in 1..Len(SceneTextureTags) :
              FindTextureSlot(SceneTextureTags[k]) # NotFound =>
                  /\ FindTextureSlot(SceneTextureTags[k])' = FindTextureSlot(SceneTextureTags[k])
                  /\ FindTextureID(SceneTextureTags[k])' = FindTextureID(SceneTextureTags[k])]_vars
    /\ [][\A j \in 1..Len(SceneMaterials), material \in IndeterminateMaterials :
              DefinedAt(SceneMaterials[j].tag) # {} =>
                  FindMaterial(SceneMaterials[j].tag, material)'
                      = FindMaterial(SceneMaterials[j].tag, material)]_vars

\* PrepareScene has run twice with every file decoded and the caller has
\* looked up dbell: 14 textures, 8 materials, dbell in slot 6 and again in
\* the last entry.
C23_Witness ==
    /\ Ready
    /\ files = AllDecode
    /\ bindCalls = 2
    /\ m_loadedTextures = 14
    /\ Len(m_objectMaterials) = 8
    /\ lastCall.op = "FindTextureSlot"
    /\ lastCall.tag = "dbell"
    /\ lastCall.ret = 6
    /\ m_textureIDs[13].tag = "dbell"
    /\ m_textureIDs[13].ID # FindTextureID("dbell")

====
